---- MODULE Spec2Model ----
(***************************************************************************)
(* Model of secure_chatbot_with_images.py: the content-safety guard, the   *)
(* query orchestrator (stream_response), the Streamlit session driver      *)
(* (main) and the ingestion pipeline (OCRExtractor, ImageAnnotator,        *)
(* process_document).  Texts are sequences of one-character or marker      *)
(* strings, so that lower-casing, substring search, slicing and message    *)
(* formatting are computed the way the Python code computes them.          *)
(***************************************************************************)
EXTENDS Integers, Sequences, FiniteSets, TLC

(***************************************************************************)
(* Bounds of the model.                                                    *)
(***************************************************************************)
\* questions in the message history of a session
MaxQuestions == 4
\* largest severity the content-safety service reports in the guard specification
MaxSeverity == 3
\* increments one llm.stream produces at most
MaxStream == 2

(***************************************************************************)
(* Text helpers.                                                           *)
(***************************************************************************)
Max(a, b) == IF a >= b THEN a ELSE b

Min(a, b) == IF a <= b THEN a ELSE b

\* s[:n]
Take(s, n) == SubSeq(s, 1, Min(n, Len(s)))

\* s[::-1]
Reverse(s) == [i \in 1..Len(s) |-> s[Len(s) + 1 - i]]

\* s[-n:]
LastN(s, n) == SubSeq(s, Max(1, Len(s) - n + 1), Len(s))

RECURSIVE Join(_, _)
\* sep.join(parts)
Join(parts, sep) ==
    IF Len(parts) = 0 THEN <<>>
    ELSE IF Len(parts) = 1 THEN parts[1]
    ELSE parts[1] \o sep \o Join(Tail(parts), sep)

RECURSIVE Concat(_)
\* "".join(parts)
Concat(parts) == IF Len(parts) = 0 THEN <<>> ELSE parts[1] \o Concat(Tail(parts))

UpperToLower ==
    "A" :> "a" @@ "B" :> "b" @@ "C" :> "c" @@ "D" :> "d" @@ "E" :> "e" @@
    "F" :> "f" @@ "G" :> "g" @@ "H" :> "h" @@ "I" :> "i" @@ "J" :> "j" @@
    "K" :> "k" @@ "L" :> "l" @@ "M" :> "m" @@ "N" :> "n" @@ "O" :> "o" @@
    "P" :> "p" @@ "Q" :> "q" @@ "R" :> "r" @@ "S" :> "s" @@ "T" :> "t" @@
    "U" :> "u" @@ "V" :> "v" @@ "W" :> "w" @@ "X" :> "x" @@ "Y" :> "y" @@
    "Z" :> "z"

\* str.lower()
lower(text) ==
    [i \in 1..Len(text) |->
        IF text[i] \in DOMAIN UpperToLower THEN UpperToLower[text[i]] ELSE text[i]]

\* p in text
Contains(p, text) ==
    \E i \in 0..(Len(text) - Len(p)) : SubSeq(text, i + 1, i + Len(p)) = p

(***************************************************************************)
(* ContentSafetyGuard.                                                     *)
(***************************************************************************)
thresholds == [hate |-> 2, sexual |-> 2, violence |-> 2, self_harm |-> 2]

\* self.thresholds.get(category_name, 2)
thresholds_get(category_name) ==
    IF category_name \in DOMAIN thresholds THEN thresholds[category_name] ELSE 2

\* item.category.lower(), for the categories of the service (TextCategory)
CategoryLower ==
    "Hate" :> "hate" @@ "SelfHarm" :> "selfharm" @@
    "Sexual" :> "sexual" @@ "Violence" :> "violence"

\* category_name.upper()
CategoryUpper ==
    "hate" :> "HATE" @@ "selfharm" :> "SELFHARM" @@
    "sexual" :> "SEXUAL" @@ "violence" :> "VIOLENCE"

\* The exceptions client.analyze_text can raise: HttpResponseError is the one
\* check_content catches; ServiceRequestError (transport) and any other
\* exception are not subclasses of it.
ServiceExceptions == {"HttpResponseError", "ServiceRequestError", "Exception"}

\* the threshold one item is compared with (lines 94-96)
item_threshold(category_name, strict_mode) ==
    IF strict_mode THEN Max(1, thresholds_get(category_name) - 1)
    ELSE thresholds_get(category_name)

\* line 98 with > in place of >=
item_blocks_above_only(item, strict_mode) ==
    item.severity > item_threshold(CategoryLower[item.category], strict_mode)

\* severity >= threshold (line 98)
item_blocks(item, strict_mode) ==
    item.severity >= item_threshold(CategoryLower[item.category], strict_mode)

\* f"{category_name.upper()} (severity: {severity})"
item_reason(item) ==
    <<CategoryUpper[CategoryLower[item.category]], " (severity: ",
      ToString(item.severity), ")">>

\* The verdict built from a service response (lines 81-107).
verdict_of(items, strict_mode) ==
    LET hits == SelectSeq(items, LAMBDA it : item_blocks(it, strict_mode))
        reasons == [i \in 1..Len(hits) |-> item_reason(hits[i])]
        names == {CategoryLower[items[i].category] : i \in 1..Len(items)}
        last(n) == CHOOSE i \in 1..Len(items) :
                      /\ CategoryLower[items[i].category] = n
                      /\ \A j \in (i + 1)..Len(items) :
                            CategoryLower[items[j].category] # n
        blocked == Len(hits) > 0
    IN  [raised |-> FALSE,
         safe |-> ~blocked,
         blocked |-> blocked,
         reason |-> IF Len(reasons) > 0 THEN Join(reasons, <<", ">>) ELSE <<"Safe">>,
         categories |-> [n \in names |->
                            [severity |-> items[last(n)].severity,
                             threshold |-> thresholds_get(n)]]]

\* check_content(text, strict_mode), given what client.analyze_text does:
\* outcome.kind is "response" or the name of the exception raised.
check_content(text, strict_mode, outcome) ==
    IF outcome.kind = "response"
    THEN verdict_of(outcome.categories_analysis, strict_mode)
    ELSE IF outcome.kind = "HttpResponseError"
    THEN [raised |-> FALSE,
          safe |-> FALSE,
          blocked |-> TRUE,
          reason |-> <<"Error: ">> \o outcome.error,
          categories |-> <<>>]
    ELSE [raised |-> TRUE,
          safe |-> FALSE,
          blocked |-> FALSE,
          reason |-> outcome.error,
          categories |-> <<>>]

jailbreak_patterns == <<
    <<"i","g","n","o","r","e"," ","p","r","e","v","i","o","u","s"," ","i","n","s","t","r","u","c","t","i","o","n","s">>,
    <<"i","g","n","o","r","e"," ","a","l","l"," ","p","r","e","v","i","o","u","s">>,
    <<"f","o","r","g","e","t"," ","e","v","e","r","y","t","h","i","n","g">>,
    <<"y","o","u"," ","a","r","e"," ","n","o","w">>,
    <<"p","r","e","t","e","n","d"," ","y","o","u"," ","a","r","e">>,
    <<"a","c","t"," ","a","s"," ","i","f">>,
    <<"a","b","a","i","k","a","n"," ","i","n","s","t","r","u","k","s","i"," ","s","e","b","e","l","u","m","n","y","a">>,
    <<"l","u","p","a","k","a","n"," ","s","e","m","u","a">>,
    <<"k","a","m","u"," ","s","e","k","a","r","a","n","g"," ","a","d","a","l","a","h">>,
    <<"b","e","r","p","u","r","a","-","p","u","r","a"," ","m","e","n","j","a","d","i">>,
    <<"a","n","g","g","a","p"," ","k","a","m","u"," ","a","d","a","l","a","h">>,
    <<"s","y","s","t","e","m"," ","p","r","o","m","p","t">>,
    <<"o","v","e","r","r","i","d","e"," ","i","n","s","t","r","u","c","t","i","o","n","s">> >>

\* detect_jailbreak without text.lower()
detect_jailbreak_case_sensitive(text) ==
    LET detected == SelectSeq(jailbreak_patterns, LAMBDA p : Contains(p, text))
    IN  [is_jailbreak |-> Len(detected) > 0,
         confidence |-> IF Len(detected) > 0 THEN "high" ELSE "low",
         patterns |-> detected]

\* detect_jailbreak(text)
detect_jailbreak(text) ==
    LET text_lower == lower(text)
        detected == SelectSeq(jailbreak_patterns, LAMBDA p : Contains(p, text_lower))
    IN  [is_jailbreak |-> Len(detected) > 0,
         confidence |-> IF Len(detected) > 0 THEN "high" ELSE "low",
         patterns |-> detected]

(***************************************************************************)
(* SecureChatbotRAGWithImages: retrieval and re-ranking.                   *)
(***************************************************************************)
max_blocked == 3

\* the defaults of stream_response(question, k=10, top_k_rerank=5)
k_default == 10

top_k_rerank_default == 5

NoneStore == [is_none |-> TRUE, docs |-> <<>>]

RECURSIVE InsertDesc_before_equals(_, _)
\* insert pair into a list sorted by descending score, before its equals
InsertDesc_before_equals(sorted, pair) ==
    IF Len(sorted) = 0 THEN <<pair>>
    ELSE IF pair.score >= sorted[1].score THEN <<pair>> \o sorted
    ELSE <<sorted[1]>> \o InsertDesc_before_equals(Tail(sorted), pair)

RECURSIVE InsertDesc(_, _)
\* insert pair into a list sorted by descending score, after its equals
InsertDesc(sorted, pair) ==
    IF Len(sorted) = 0 THEN <<pair>>
    ELSE IF pair.score > sorted[1].score THEN <<pair>> \o sorted
    ELSE <<sorted[1]>> \o InsertDesc(Tail(sorted), pair)

RECURSIVE SortDesc(_)
\* list.sort(key=score, reverse=True): stable, descending
SortDesc(pairs) ==
    IF Len(pairs) = 0 THEN <<>>
    ELSE InsertDesc(SortDesc(SubSeq(pairs, 1, Len(pairs) - 1)), pairs[Len(pairs)])

\* rerank_results(query, documents, top_k), given the scores of reranker.predict
rerank_results(documents, scores, top_k) ==
    IF Len(documents) = 0 THEN <<>>
    ELSE LET doc_score_pairs ==
                 [i \in 1..Len(documents) |-> [doc |-> documents[i], score |-> scores[i]]]
         IN  Take(SortDesc(doc_score_pairs), top_k)

(***************************************************************************)
(* State.                                                                  *)
(***************************************************************************)
VARIABLES
    messages,        \* st.session_state.messages
    initialized,     \* st.session_state.initialized
    blocked_count,   \* chatbot.blocked_count
    vectorstore,     \* chatbot.vectorstore
    pc,              \* where the script is: "idle" or a stage of stream_response
    question,        \* the question of the query in flight
    chat_history,    \* the chat_history argument of the query in flight
    events,          \* the events the query in flight has yielded so far
    calls,           \* the collaborator calls the query in flight has made
    full_response,   \* stream_response's accumulated answer
    top_docs,        \* stream_response's re-ranked documents
    blocked_before,  \* blocked_count when the query in flight began
    inflight,        \* number of stream_response generators not yet exhausted
    probe,           \* argument and result of a function applied on its own
    OCR_AVAILABLE,   \* the module flag set by the imports of lines 25-32
    ocr_extractor,   \* chatbot.ocr_extractor: extracted_images, ocr_text_by_page
    image_annotator, \* chatbot.image_annotator.annotated_images
    annotated_images, \* chatbot.annotated_images
    chroma,          \* the collection stored under collection_name in ./chroma_db
    run,             \* the process_document call in flight, or the last one's result
    ingestions       \* process_document calls made so far

sessionVars == <<messages, initialized, blocked_count, vectorstore>>

queryVars == <<pc, question, chat_history, events, calls, full_response, top_docs,
               blocked_before, inflight>>

ingestVars == <<OCR_AVAILABLE, ocr_extractor, image_annotator, annotated_images,
                chroma, run, ingestions>>

vars == <<messages, initialized, blocked_count, vectorstore, pc, question,
          chat_history, events, calls, full_response, top_docs, blocked_before,
          inflight, probe, OCR_AVAILABLE, ocr_extractor, image_annotator,
          annotated_images, chroma, run, ingestions>>

(***************************************************************************)
(* Inputs of the session specification.                                    *)
(***************************************************************************)
Q_benign == <<"W","h","a","t"," ","i","s"," ","F","i","g"," ","1">>

Q_jailbreak == <<"I","G","N","O","R","E"," ","P","r","e","v","i","o","u","s"," ","I","n","s","t","r","u","c","t","i","o","n","s">>

Q_two == <<"Y","o","u"," ","A","r","e"," ","N","o","w"," ","m","y"," ","S","y","s","t","e","m"," ","P","r","o","m","p","t">>

\* the questions of the session specification
Questions == {Q_benign, Q_two}

Response(hate, selfharm, sexual, violence) ==
    [kind |-> "response",
     categories_analysis |-> <<[category |-> "Hate", severity |-> hate],
                               [category |-> "SelfHarm", severity |-> selfharm],
                               [category |-> "Sexual", severity |-> sexual],
                               [category |-> "Violence", severity |-> violence]>>,
     error |-> <<>>]

Failure(exception) ==
    [kind |-> exception, categories_analysis |-> <<>>, error |-> <<exception>>]

\* what client.analyze_text does on a question in the session specification
InputOutcomes ==
    {Response(0, 0, 0, 0), Response(1, 0, 0, 0), Response(0, 0, 0, 2),
     Failure("HttpResponseError"), Failure("ServiceRequestError")}

\* what client.analyze_text does on an answer in the session specification
OutputOutcomes ==
    {Response(0, 0, 0, 0), Response(1, 0, 0, 0), Failure("ServiceRequestError")}

\* the chunks process_document indexed
IndexedDocs ==
    <<[page_content |-> <<"text chunk">>, type |-> "text"],
      [page_content |-> <<"image annotation">>, type |-> "image_annotation"],
      [page_content |-> <<"ocr chunk">>, type |-> "ocr_text"]>>

\* what vectorstore.similarity_search(question, k) returns: the k best chunks
\* of the collection, in one ranking or another
SearchResults(store, k) ==
    {Take(store.docs, k), Take(Reverse(store.docs), k)}

\* the i-th increment of llm.stream(prompt_text)
Increment(i) == <<"tok", ToString(i)>>

Status(text) == [type |-> "status", content |-> <<text>>]

Error(content) == [type |-> "error", content |-> content]

\* one collaborator call: what was called, on which text, how it came back
Call(op, mode, strict_mode, result, detail) ==
    [op |-> op, mode |-> mode, strict_mode |-> strict_mode, result |-> result,
     detail |-> detail]

Capitalize == "user" :> "User" @@ "assistant" :> "Assistant"

OpsOf(cs) == [i \in 1..Len(cs) |-> cs[i].op]

Has(seq, x) == \E i \in 1..Len(seq) : seq[i] = x

(***************************************************************************)
(* Ingestion: what the external libraries deliver for a PDF.               *)
(*                                                                         *)
(* A PDF is described by what the collaborators make of it: the layout     *)
(* decides what doc.export_to_markdown() returns, items is what            *)
(* doc.iterate_items() yields, pages holds, for each page fitz renders,    *)
(* what the OCR engine does on its image.                                  *)
(***************************************************************************)
\* pages of a scanned PDF in the exhaustive document set
MaxPages == 2
\* items of a native PDF in the exhaustive document set
MaxItems == 2
\* process_document calls on one collection in the scenario specification
MaxIngestions == 2

\* is_image_based_pdf(doc_text, threshold: int = 500)
threshold_default == 500

\* chunk_size = 1000 (line 761), and the literal of line 759
chunk_size == 1000

\* str(e)[:100] (lines 242, 440)
error_limit == 100

\* context[:window] with window = 500 (line 503), context[:500] (line 381)
context_window == 500

Whitespace == {" ", "\n", "\t", "\r"}

\* text.startswith(prefix)
StartsWith(text, prefix) ==
    Len(text) >= Len(prefix) /\ SubSeq(text, 1, Len(prefix)) = prefix

RECURSIVE LStrip(_)
LStrip(text) ==
    IF Len(text) > 0 /\ text[1] \in Whitespace THEN LStrip(Tail(text)) ELSE text

RECURSIVE RStrip(_)
RStrip(text) ==
    IF Len(text) > 0 /\ text[Len(text)] \in Whitespace
    THEN RStrip(SubSeq(text, 1, Len(text) - 1))
    ELSE text

\* str.strip()
Strip(text) == RStrip(LStrip(text))

\* a text of n characters whose i-th character tells i modulo 10
Chars(n) == [i \in 1..n |-> ToString(i % 10)]

\* the message of the exception a collaborator raises: longer than str(e)[:100]
ErrorMessage == [i \in 1..(error_limit + 4) |-> IF i <= error_limit THEN "e" ELSE "!"]

\* doc.export_to_markdown(): a scan yields a heading and a page mark (10
\* characters besides markup and whitespace), a native PDF 2000 of them
export_to_markdown(pdf) ==
    IF pdf.layout = "scanned"
    THEN <<"#", "#", " ", "S", "c", "a", "n", "n", "e", "d", " ", "*", "p", ".",
           " ", "1", "*", "\n">>
    ELSE <<"#", " ">> \o [i \in 1..2400 |-> IF i % 6 = 0 THEN " " ELSE "a"]

\* is_image_based_pdf with "char_count <= threshold"
is_image_based_pdf_at_most(doc_text, threshold) ==
    LET clean_text == SelectSeq(doc_text,
                                LAMBDA c : c \notin {"#", "*", "-"} /\ c \notin Whitespace)
        char_count == Len(clean_text)
    IN  char_count <= threshold

\* OCRExtractor.is_image_based_pdf(doc_text, threshold)
is_image_based_pdf(doc_text, threshold) ==
    LET clean_text == SelectSeq(doc_text,
                                LAMBDA c : c \notin {"#", "*", "-"} /\ c \notin Whitespace)
        char_count == Len(clean_text)
    IN  char_count < threshold

\* what self.ocr_engine(img_path) does on the image of a page
PageKinds == {"none", "raises", "blank", "short", "full", "over", "double"}

\* result of self.ocr_engine(img_path): the texts of the lines
\* [bbox, text, confidence], None, or an exception
ocr_engine(page) ==
    CASE page = "none" -> [kind |-> "none", lines |-> <<>>, error |-> <<>>]
      [] page = "raises" -> [kind |-> "raise", lines |-> <<>>, error |-> ErrorMessage]
      [] page = "blank" -> [kind |-> "lines", lines |-> << <<>> >>, error |-> <<>>]
      [] page = "short" ->
            [kind |-> "lines",
             lines |-> << <<"I", "n", "v", "o", "i", "c", "e">>, <<"4", "2">> >>,
             error |-> <<>>]
      [] page = "full" ->
            [kind |-> "lines", lines |-> <<Chars(chunk_size)>>, error |-> <<>>]
      [] page = "over" ->
            [kind |-> "lines", lines |-> <<Chars(600), Chars(400)>>, error |-> <<>>]
      [] page = "double" ->
            [kind |-> "lines", lines |-> <<Chars(2 * chunk_size)>>, error |-> <<>>]

NoTextDetected ==
    <<"[", "N", "o", " ", "t", "e", "x", "t", " ", "d", "e", "t", "e", "c", "t",
      "e", "d", "]">>

OcrErrorPrefix == <<"[", "O", "C", "R", " ", "E", "r", "r", "o", "r">>

\* f"[OCR Error: {str(e)[:100]}]"
OcrError(message) ==
    OcrErrorPrefix \o <<":", " ">> \o Take(message, error_limit) \o <<"]">>

\* an item of doc.iterate_items(): a text block, or a picture whose
\* caption_text(doc) returns or raises, with or without provenance, whose
\* pixel data is on the item ("pil"), behind get_image ("accessor"), absent
\* ("none") or cannot be written to the temporary file ("unwritable"), and
\* on which vision_llm.invoke answers or raises
TextItem == [kind |-> "text", caption |-> "none", prov |-> TRUE, image |-> "none",
             vlm |-> "none"]

Picture(caption, prov, image, vlm) ==
    [kind |-> "picture", caption |-> caption, prov |-> prov, image |-> image,
     vlm |-> vlm]

\* the pictures of the exhaustive document set
DocPictures ==
    {Picture("returns", TRUE, "pil", "answers"),
     Picture("returns", FALSE, "none", "answers"),
     Picture("returns", TRUE, "pil", "raises"),
     Picture("raises", TRUE, "pil", "answers")}

\* every picture describe_image_with_vlm is applied to on its own
AllPictures ==
    {Picture(caption, prov, image, vlm) :
        caption \in {"returns", "raises"}, prov \in BOOLEAN,
        image \in {"pil", "accessor", "embedded", "none", "unwritable"},
        vlm \in {"answers", "raises"}}

Pdf(name, layout, items, pages) ==
    [name |-> name, layout |-> layout, items |-> items, pages |-> pages]

NoPdf == Pdf("", "native", <<>>, <<>>)

\* the documents of the scenario specification: a native PDF without figures,
\* a native PDF with two figures, a three-page scan with one figure whose
\* second page fails in the OCR engine, a one-page scan whose figure has a
\* caption that cannot be resolved
Library ==
    {Pdf("report.pdf", "native", <<TextItem, TextItem>>, <<"short", "short">>),
     Pdf("paper.pdf", "native",
         <<Picture("returns", TRUE, "pil", "answers"), TextItem,
           Picture("returns", FALSE, "accessor", "raises")>>,
         <<"short">>),
     Pdf("scan.pdf", "scanned",
         <<TextItem, Picture("returns", TRUE, "none", "answers")>>,
         <<"short", "raises", "over">>),
     Pdf("poster.pdf", "scanned",
         <<Picture("raises", TRUE, "pil", "answers")>>, <<"none">>)}

\* every scan of at most MaxPages pages
Scans ==
    {Pdf("scan.pdf", "scanned", <<TextItem>>, pages) :
        pages \in UNION {[1..n -> PageKinds] : n \in 0..MaxPages}}

\* every native PDF of at most MaxItems items
FigureDocs ==
    {Pdf("paper.pdf", "native", items, <<"short">>) :
        items \in UNION {[1..n -> {TextItem} \cup DocPictures] : n \in 0..MaxItems}}

\* the value of an absent "ocr_part" metadata key
NoPart == -1

\* langchain Document(page_content, metadata)
Document(page_content, source, chunk_id, type, page, ocr_part) ==
    [page_content |-> page_content, source |-> source, chunk_id |-> chunk_id,
     type |-> type, page |-> page, ocr_part |-> ocr_part]

\* the dictionary process_document returns (lines 832-843)
Summary(total_chunks, text_chunks, image_chunks, ocr_chunks, ocr_pages, ocr_images_saved, ocr_used, pdf_type) ==
    [total_chunks |-> total_chunks, text_chunks |-> text_chunks,
     image_chunks |-> image_chunks, images_found |-> image_chunks,
     ocr_chunks |-> ocr_chunks, ocr_pages |-> ocr_pages,
     ocr_images_saved |-> ocr_images_saved, ocr_available |-> OCR_AVAILABLE,
     ocr_used |-> ocr_used, pdf_type |-> pdf_type]

\* the locals of a process_document call: where it is, its arguments, and
\* what it returned or raised
Run(stage, pdf, progress_callback, is_image_pdf, use_ocr, documents, summary, error) ==
    [pc |-> stage, pdf |-> pdf, progress_callback |-> progress_callback,
     is_image_pdf |-> is_image_pdf, use_ocr |-> use_ocr, documents |-> documents,
     summary |-> summary, error |-> error]

NoSummary == <<>>

NoRun == Run("idle", NoPdf, FALSE, FALSE, FALSE, <<>>, NoSummary, "")

\* a chatbot object on which process_document has not been called
\* (OCRExtractor.__init__, ImageAnnotator.__init__, lines 540-542)
NewObject ==
    /\ ocr_extractor = [extracted_images |-> <<>>, ocr_text_by_page |-> <<>>]
    /\ image_annotator = [annotated_images |-> <<>>]
    /\ annotated_images = <<>>
    /\ run = NoRun
    /\ ingestions = 0

\* the session as init_session_state leaves it
SessionInit ==
    /\ messages = <<>>
    /\ initialized = FALSE
    /\ blocked_count = 0
    /\ vectorstore = NoneStore
    /\ pc = "idle"
    /\ question = <<>>
    /\ chat_history = <<>>
    /\ events = <<>>
    /\ calls = <<>>
    /\ full_response = <<>>
    /\ top_docs = <<>>
    /\ blocked_before = 0
    /\ inflight = 0
    /\ probe = [op |-> "none"]

\* the session specification does not read OCR_AVAILABLE
Init ==
    /\ SessionInit
    /\ OCR_AVAILABLE = TRUE
    /\ chroma = [exists |-> FALSE, docs |-> <<>>]
    /\ NewObject

(***************************************************************************)
(* main: the sidebar handlers.                                             *)
(***************************************************************************)
\* "Process Document" with line 1013 placed after the try statement: the
\* flag is set whether process_document returned or raised
ProcessDocument_sets_flag_after_try ==
    /\ pc = "idle"
    /\ messages' = <<>>
    /\ blocked_count' = 0
    /\ \E succeeds \in BOOLEAN :
          IF succeeds
          THEN /\ vectorstore' = [is_none |-> FALSE, docs |-> IndexedDocs]
               /\ initialized' = TRUE
          ELSE /\ vectorstore' = NoneStore
               /\ initialized' = TRUE
    /\ UNCHANGED <<queryVars, probe, ingestVars>>

\* "Process Document" (lines 983-1021): a new chatbot object replaces the old
\* one, then process_document either builds the index or raises.
ProcessDocument ==
    /\ pc = "idle"
    /\ messages' = <<>>
    /\ blocked_count' = 0
    /\ \E succeeds \in BOOLEAN :
          IF succeeds
          THEN /\ vectorstore' = [is_none |-> FALSE, docs |-> IndexedDocs]
               /\ initialized' = TRUE
          ELSE /\ vectorstore' = NoneStore
               /\ initialized' = FALSE
    /\ UNCHANGED <<queryVars, probe, ingestVars>>

\* "Load Default" (lines 1024-1050): offered while not initialized; the
\* session's chatbot object processes the default document.
LoadDefault ==
    /\ pc = "idle"
    /\ ~initialized
    /\ \E succeeds \in BOOLEAN :
          IF succeeds
          THEN /\ vectorstore' = [is_none |-> FALSE, docs |-> IndexedDocs]
               /\ initialized' = TRUE
          ELSE UNCHANGED <<vectorstore, initialized>>
    /\ UNCHANGED <<messages, blocked_count, queryVars, probe, ingestVars>>

\* "Reset Chat" (lines 1095-1098)
ResetChat ==
    /\ pc = "idle"
    /\ initialized
    /\ messages' = <<>>
    /\ blocked_count' = 0
    /\ UNCHANGED <<initialized, vectorstore, queryVars, probe, ingestVars>>

\* "Clear All & Start Over" (lines 1100-1105)
ClearAll ==
    /\ pc = "idle"
    /\ initialized
    /\ messages' = <<>>
    /\ initialized' = FALSE
    /\ blocked_count' = 0
    /\ vectorstore' = NoneStore
    /\ UNCHANGED <<queryVars, probe, ingestVars>>

(***************************************************************************)
(* main: the chat input (lines 1197-1218).                                 *)
(***************************************************************************)
\* f"{msg['role'].capitalize()}: {msg['content'][:200]}..." joined by "\n"
\* over st.session_state.messages[-6:]
BuildChatHistory(msgs) ==
    LET recent == LastN(msgs, 6)
    IN  Join([i \in 1..Len(recent) |->
                 <<Capitalize[recent[i].role], ": ">> \o Take(recent[i].content, 200)
                     \o <<"...">>],
             <<"\n">>)

\* a chat input that does not wait for the for loop of line 1218 to end
MaySubmit_while_in_flight == initialized

\* the questions in the message history
Asked(msgs) == Len(SelectSeq(msgs, LAMBDA m : m.role = "user"))

\* whether the chat input is reached and may start a query (lines 1143, 1178, 1197)
MaySubmit == initialized /\ pc = "idle"

SubmitQuestion ==
    /\ MaySubmit
    /\ Asked(messages) < MaxQuestions
    /\ \E prompt \in Questions :
          /\ messages' = Append(messages, [role |-> "user", content |-> prompt])
          /\ question' = prompt
    /\ chat_history' = BuildChatHistory(messages')
    /\ pc' = "jailbreak_check"
    /\ events' = <<>>
    /\ calls' = <<>>
    /\ full_response' = <<>>
    /\ top_docs' = <<>>
    /\ blocked_before' = blocked_count
    /\ inflight' = inflight + 1
    /\ UNCHANGED <<initialized, blocked_count, vectorstore, probe, ingestVars>>

(***************************************************************************)
(* stream_response (lines 857-941), one action per stage.                  *)
(***************************************************************************)
\* Step 1 without the return of line 877: a flagged question goes on to the
\* content check
JailbreakCheck_without_return ==
    /\ pc = "jailbreak_check"
    /\ LET jailbreak_check == detect_jailbreak(question)
       IN  IF jailbreak_check.is_jailbreak
           THEN /\ blocked_count' = blocked_count + 1
                /\ events' = Append(events,
                      Error(<<"jailbreak: ">> \o Join(jailbreak_check.patterns, <<", ">>)))
                /\ calls' = Append(calls, Call("detect_jailbreak", "input", FALSE, "flagged", <<>>))
                /\ pc' = "input_safety_check"
           ELSE /\ blocked_count' = blocked_count
                /\ events' = Append(events, Status("checking input"))
                /\ calls' = Append(calls, Call("detect_jailbreak", "input", FALSE, "clear", <<>>))
                /\ pc' = "input_safety_check"
    /\ UNCHANGED <<messages, initialized, vectorstore, question, chat_history,
                   full_response, top_docs, blocked_before, inflight, probe, ingestVars>>

\* Step 1 (lines 869-877)
JailbreakCheck ==
    /\ pc = "jailbreak_check"
    /\ LET jailbreak_check == detect_jailbreak(question)
       IN  IF jailbreak_check.is_jailbreak
           THEN /\ blocked_count' = blocked_count + 1
                /\ events' = Append(events,
                      Error(<<"jailbreak: ">> \o Join(jailbreak_check.patterns, <<", ">>)))
                /\ calls' = Append(calls, Call("detect_jailbreak", "input", FALSE, "flagged", <<>>))
                /\ pc' = "returned"
           ELSE /\ blocked_count' = blocked_count
                /\ events' = Append(events, Status("checking input"))
                /\ calls' = Append(calls, Call("detect_jailbreak", "input", FALSE, "clear", <<>>))
                /\ pc' = "input_safety_check"
    /\ UNCHANGED <<messages, initialized, vectorstore, question, chat_history,
                   full_response, top_docs, blocked_before, inflight, probe, ingestVars>>

\* line 890 with > in place of >=
InputBlockedEvents_above_only(reason, count) ==
    <<Error(<<"input blocked: ">> \o reason)>>
        \o (IF count > max_blocked THEN <<Error(<<"session terminated">>)>> ELSE <<>>)

\* the events of a blocked input (lines 883-895), given the counter after the increment
InputBlockedEvents(reason, count) ==
    <<Error(<<"input blocked: ">> \o reason)>>
        \o (IF count >= max_blocked THEN <<Error(<<"session terminated">>)>> ELSE <<>>)

\* the input check without the return of line 895
AfterInputCheck_falls_through(safety_check) ==
    IF safety_check.raised THEN "raised" ELSE "retrieve"

\* where stream_response goes after the input check (lines 883, 895, 898)
AfterInputCheck(safety_check) ==
    IF safety_check.raised THEN "raised"
    ELSE IF safety_check.blocked THEN "returned"
    ELSE "retrieve"

\* how a check_content call came back
CheckResult(check) ==
    IF check.raised THEN "raised" ELSE IF check.blocked THEN "blocked" ELSE "safe"

\* Step 2 that counts a blocked input only when a category was scored
InputSafetyCheck_counts_policy_blocks_only ==
    /\ pc = "input_safety_check"
    /\ \E outcome \in InputOutcomes :
          LET safety_check == check_content(question, FALSE, outcome)
          IN  /\ calls' = Append(calls, Call("check_content", "input", FALSE,
                                             CheckResult(safety_check), safety_check.reason))
              /\ pc' = AfterInputCheck(safety_check)
              /\ IF safety_check.raised
                 THEN UNCHANGED <<blocked_count, events>>
                 ELSE IF safety_check.blocked
                 THEN /\ blocked_count' = IF outcome.kind = "response"
                                          THEN blocked_count + 1 ELSE blocked_count
                      /\ events' = events \o InputBlockedEvents(safety_check.reason,
                                                                blocked_count')
                 ELSE /\ blocked_count' = blocked_count
                      /\ events' = Append(events, Status("retrieving"))
    /\ UNCHANGED <<messages, initialized, vectorstore, question, chat_history,
                   full_response, top_docs, blocked_before, inflight, probe, ingestVars>>

\* Step 2 (lines 879-898)
InputSafetyCheck ==
    /\ pc = "input_safety_check"
    /\ \E outcome \in InputOutcomes :
          LET safety_check == check_content(question, FALSE, outcome)
          IN  /\ calls' = Append(calls, Call("check_content", "input", FALSE,
                                             CheckResult(safety_check), safety_check.reason))
              /\ pc' = AfterInputCheck(safety_check)
              /\ IF safety_check.raised
                 THEN UNCHANGED <<blocked_count, events>>
                 ELSE IF safety_check.blocked
                 THEN /\ blocked_count' = blocked_count + 1
                      /\ events' = events \o InputBlockedEvents(safety_check.reason,
                                                                blocked_count')
                 ELSE /\ blocked_count' = blocked_count
                      /\ events' = Append(events, Status("retrieving"))
    /\ UNCHANGED <<messages, initialized, vectorstore, question, chat_history,
                   full_response, top_docs, blocked_before, inflight, probe, ingestVars>>

\* Step 3 with the failure caught and reported as an error event
Retrieve_reports_failure ==
    /\ pc = "retrieve"
    /\ \/ /\ ~vectorstore.is_none
          /\ \E initial_results \in SearchResults(vectorstore, k_default) :
                top_docs' = initial_results
          /\ calls' = Append(calls, Call("similarity_search", "input", FALSE, "returned", <<>>))
          /\ events' = Append(events, Status("sorting"))
          /\ pc' = "rerank"
       \/ /\ calls' = Append(calls, Call("similarity_search", "input", FALSE, "raised", <<>>))
          /\ events' = Append(events, Error(<<"retrieval failed">>))
          /\ pc' = "returned"
          /\ UNCHANGED top_docs
    /\ UNCHANGED <<sessionVars, question, chat_history, full_response,
                   blocked_before, inflight, probe, ingestVars>>

\* Step 3 (lines 899-902): similarity_search returns, or raises (also when
\* self.vectorstore is None)
Retrieve ==
    /\ pc = "retrieve"
    /\ \/ /\ ~vectorstore.is_none
          /\ \E initial_results \in SearchResults(vectorstore, k_default) :
                top_docs' = initial_results
          /\ calls' = Append(calls, Call("similarity_search", "input", FALSE, "returned", <<>>))
          /\ events' = Append(events, Status("sorting"))
          /\ pc' = "rerank"
       \/ /\ calls' = Append(calls, Call("similarity_search", "input", FALSE, "raised", <<>>))
          /\ pc' = "raised"
          /\ UNCHANGED <<events, top_docs>>
    /\ UNCHANGED <<sessionVars, question, chat_history, full_response,
                   blocked_before, inflight, probe, ingestVars>>

\* the status events of lines 906-916
RerankEvents(docs) ==
    LET image_docs == SelectSeq(docs, LAMBDA d : d.type = "image_annotation")
        ocr_docs == SelectSeq(docs, LAMBDA d : d.type = "ocr_text")
    IN  (IF Len(image_docs) > 0
         THEN <<Status("images found: " \o ToString(Len(image_docs)))>> ELSE <<>>)
        \o (IF Len(ocr_docs) > 0
            THEN <<Status("ocr chunks found: " \o ToString(Len(ocr_docs)))>> ELSE <<>>)
        \o <<Status("generating")>>

\* Step 4 (lines 903-916): top_docs holds initial_results before, the kept
\* documents after
Rerank ==
    /\ pc = "rerank"
    /\ \/ /\ \E scores \in [1..Len(top_docs) -> {1, 2}] :
                LET reranked_results ==
                        rerank_results(top_docs, scores, top_k_rerank_default)
                IN  top_docs' = [i \in 1..Len(reranked_results) |-> reranked_results[i].doc]
          /\ calls' = IF Len(top_docs) = 0 THEN calls
                      ELSE Append(calls, Call("reranker.predict", "input", FALSE, "returned", <<>>))
          /\ events' = events \o RerankEvents(top_docs')
          /\ pc' = "generate"
       \/ /\ Len(top_docs) > 0
          /\ calls' = Append(calls, Call("reranker.predict", "input", FALSE, "raised", <<>>))
          /\ pc' = "raised"
          /\ UNCHANGED <<events, top_docs>>
    /\ UNCHANGED <<sessionVars, question, chat_history, full_response,
                   blocked_before, inflight, probe, ingestVars>>

\* chat_history if chat_history else "No previous conversation." (line 922)
prompt_chat_history(history) ==
    IF Len(history) > 0 THEN history ELSE <<"No previous conversation.">>

\* self.prompt.format(context, question, chat_history) (lines 587-600,
\* 919-923): the history and the question sections of the prompt; the
\* context section between them is "\n\n".join of the page_content of
\* top_docs
prompt_format(current_question, history) ==
    <<"Conversation History:", "\n">> \o prompt_chat_history(history)
        \o <<"\n", "\n", "Current Question: ">> \o current_question

\* Step 5 (lines 918-932): the prompt is formatted and llm.stream is iterated;
\* each increment is accumulated and yielded as a chunk event, until the
\* stream ends or raises.  top_docs is not read again once the context is
\* part of the prompt.
Generate ==
    /\ pc = "generate"
    /\ calls' = Append(calls, Call("llm.stream", "prompt", FALSE, "streaming",
                                    prompt_format(question, chat_history)))
    /\ pc' = "streaming"
    /\ top_docs' = <<>>
    /\ UNCHANGED <<sessionVars, question, chat_history, events, full_response,
                   blocked_before, inflight, probe, ingestVars>>

ChunksOf(evs) == SelectSeq(evs, LAMBDA e : e.type = "chunk")

\* line 929 yielding the accumulated answer in place of the increment
StreamChunk_yields_accumulated ==
    /\ pc = "streaming"
    /\ Len(ChunksOf(events)) < MaxStream
    /\ LET chunk == Increment(Len(ChunksOf(events)) + 1)
       IN  /\ full_response' = full_response \o chunk
           /\ events' = Append(events, [type |-> "chunk", content |-> full_response'])
    /\ UNCHANGED <<sessionVars, pc, question, chat_history, calls, top_docs,
                   blocked_before, inflight, probe, ingestVars>>

StreamChunk ==
    /\ pc = "streaming"
    /\ Len(ChunksOf(events)) < MaxStream
    /\ LET chunk == Increment(Len(ChunksOf(events)) + 1)
       IN  /\ full_response' = full_response \o chunk
           /\ events' = Append(events, [type |-> "chunk", content |-> chunk])
    /\ UNCHANGED <<sessionVars, pc, question, chat_history, calls, top_docs,
                   blocked_before, inflight, probe, ingestVars>>

StreamEnd ==
    /\ pc = "streaming"
    /\ \/ /\ events' = Append(events, Status("validating"))
          /\ calls' = [calls EXCEPT ![Len(calls)].result = "returned"]
          /\ pc' = "output_safety_check"
       \/ /\ calls' = [calls EXCEPT ![Len(calls)].result = "raised"]
          /\ pc' = "raised"
          /\ UNCHANGED events
    /\ UNCHANGED <<sessionVars, question, chat_history, full_response, top_docs,
                   blocked_before, inflight, probe, ingestVars>>

\* Step 6 with the complete event outside the else of line 940
OutputSafetyCheck_always_completes ==
    /\ pc = "output_safety_check"
    /\ \E outcome \in OutputOutcomes :
          LET output_check == check_content(full_response, TRUE, outcome)
          IN  /\ calls' = Append(calls, Call("check_content", "output", TRUE,
                                             CheckResult(output_check), output_check.reason))
              /\ IF output_check.raised
                 THEN /\ pc' = "raised"
                      /\ UNCHANGED events
                 ELSE IF output_check.blocked
                 THEN /\ events' = events
                             \o <<Error(<<"output blocked: ">> \o output_check.reason),
                                  [type |-> "complete", content |-> <<>>]>>
                      /\ pc' = "returned"
                 ELSE /\ events' = Append(events, [type |-> "complete", content |-> <<>>])
                      /\ pc' = "returned"
    /\ UNCHANGED <<sessionVars, question, chat_history, full_response, top_docs,
                   blocked_before, inflight, probe, ingestVars>>

\* Step 6 (lines 933-941)
OutputSafetyCheck ==
    /\ pc = "output_safety_check"
    /\ \E outcome \in OutputOutcomes :
          LET output_check == check_content(full_response, TRUE, outcome)
          IN  /\ calls' = Append(calls, Call("check_content", "output", TRUE,
                                             CheckResult(output_check), output_check.reason))
              /\ IF output_check.raised
                 THEN /\ pc' = "raised"
                      /\ UNCHANGED events
                 ELSE IF output_check.blocked
                 THEN /\ events' = Append(events,
                             Error(<<"output blocked: ">> \o output_check.reason))
                      /\ pc' = "returned"
                 ELSE /\ events' = Append(events, [type |-> "complete", content |-> <<>>])
                      /\ pc' = "returned"
    /\ UNCHANGED <<sessionVars, question, chat_history, full_response, top_docs,
                   blocked_before, inflight, probe, ingestVars>>

(***************************************************************************)
(* main: what the for loop leaves behind (lines 1218-1249).                *)
(***************************************************************************)
\* full_response of main: the chunk events' contents, in order
MainFullResponse(evs) ==
    LET chunks == ChunksOf(evs)
    IN  Concat([i \in 1..Len(chunks) |-> chunks[i].content])

\* error_message of main: the content of the last error event, else ""
MainErrorMessage(evs) ==
    LET errors == SelectSeq(evs, LAMBDA e : e.type = "error")
    IN  IF Len(errors) = 0 THEN <<>> ELSE errors[Len(errors)].content

\* lines 1233-1244 with the answer stored whenever there is one
FinishQuery_keeps_answer ==
    /\ pc \in {"returned", "raised"}
    /\ LET main_full_response == MainFullResponse(events)
           error_message == MainErrorMessage(events)
       IN  messages' =
               IF pc = "raised" THEN messages
               ELSE IF Len(main_full_response) > 0
               THEN Append(messages, [role |-> "assistant", content |-> main_full_response])
               ELSE IF Len(error_message) > 0
               THEN Append(messages, [role |-> "assistant", content |-> error_message])
               ELSE messages
    /\ pc' = "idle"
    /\ inflight' = inflight - 1
    /\ question' = <<>>
    /\ chat_history' = <<>>
    /\ events' = <<>>
    /\ calls' = <<>>
    /\ full_response' = <<>>
    /\ top_docs' = <<>>
    /\ blocked_before' = 0
    /\ UNCHANGED <<initialized, blocked_count, vectorstore, probe, ingestVars>>

\* The generator is exhausted, or the exception it raised is caught (line 1246).
FinishQuery ==
    /\ pc \in {"returned", "raised"}
    /\ LET main_full_response == MainFullResponse(events)
           error_message == MainErrorMessage(events)
       IN  messages' =
               IF pc = "raised" THEN messages
               ELSE IF Len(main_full_response) > 0 /\ Len(error_message) = 0
               THEN Append(messages, [role |-> "assistant", content |-> main_full_response])
               ELSE IF Len(error_message) > 0
               THEN Append(messages, [role |-> "assistant", content |-> error_message])
               ELSE messages
    /\ pc' = "idle"
    /\ inflight' = inflight - 1
    /\ question' = <<>>
    /\ chat_history' = <<>>
    /\ events' = <<>>
    /\ calls' = <<>>
    /\ full_response' = <<>>
    /\ top_docs' = <<>>
    /\ blocked_before' = 0
    /\ UNCHANGED <<initialized, blocked_count, vectorstore, probe, ingestVars>>

Next ==
    \/ ProcessDocument
    \/ LoadDefault
    \/ ResetChat
    \/ ClearAll
    \/ SubmitQuestion
    \/ JailbreakCheck
    \/ InputSafetyCheck
    \/ Retrieve
    \/ Rerank
    \/ Generate
    \/ StreamChunk
    \/ StreamEnd
    \/ OutputSafetyCheck
    \/ FinishQuery

Spec == Init /\ [][Next]_vars

\* a step of the for loop of main (line 1218) over the generator: main runs
\* it to exhaustion once the question is submitted, and a finite stream ends
QueryStep ==
    \/ JailbreakCheck
    \/ InputSafetyCheck
    \/ Retrieve
    \/ Rerank
    \/ Generate
    \/ StreamEnd
    \/ OutputSafetyCheck
    \/ FinishQuery

\* questions asked in a session of the specification with fairness
MaxLiveQuestions == 3

\* the chat input in a session of at most MaxLiveQuestions questions
SubmitLiveQuestion == Asked(messages) < MaxLiveQuestions /\ SubmitQuestion

NextLive ==
    \/ ProcessDocument
    \/ LoadDefault
    \/ ResetChat
    \/ ClearAll
    \/ SubmitLiveQuestion
    \/ JailbreakCheck
    \/ InputSafetyCheck
    \/ Retrieve
    \/ Rerank
    \/ Generate
    \/ StreamChunk
    \/ StreamEnd
    \/ OutputSafetyCheck
    \/ FinishQuery

\* sessions in which the for loop, once entered, is run to its end
SpecLive == Init /\ [][NextLive]_vars /\ WF_vars(QueryStep)

(***************************************************************************)
(* The guard on its own: check_content and detect_jailbreak applied to     *)
(* every service answer and text of the sets below.                        *)
(***************************************************************************)
GuardTexts == {<<>>, Q_benign, Q_jailbreak, Q_two}

ProbeCheckContent ==
    /\ probe.op = "none"
    /\ \E strict_mode \in BOOLEAN, severity \in [1..4 -> 0..MaxSeverity] :
          LET outcome == Response(severity[1], severity[2], severity[3], severity[4])
          IN  probe' = [op |-> "check_content",
                        strict_mode |-> strict_mode,
                        outcome |-> outcome,
                        result |-> check_content(Q_benign, strict_mode, outcome)]
    /\ UNCHANGED <<sessionVars, queryVars, ingestVars>>

ProbeServiceFailure ==
    /\ probe.op = "none"
    /\ \E strict_mode \in BOOLEAN, exception \in ServiceExceptions :
          probe' = [op |-> "check_content",
                    strict_mode |-> strict_mode,
                    outcome |-> Failure(exception),
                    result |-> check_content(Q_benign, strict_mode, Failure(exception))]
    /\ UNCHANGED <<sessionVars, queryVars, ingestVars>>

ProbeDetectJailbreak ==
    /\ probe.op = "none"
    /\ \E text \in GuardTexts :
          probe' = [op |-> "detect_jailbreak",
                    text |-> text,
                    result |-> detect_jailbreak(text)]
    /\ UNCHANGED <<sessionVars, queryVars, ingestVars>>

NextGuard ==
    \/ ProbeCheckContent
    \/ ProbeServiceFailure
    \/ ProbeDetectJailbreak

SpecGuard == Init /\ [][NextGuard]_vars

(***************************************************************************)
(* OCRExtractor.                                                           *)
(***************************************************************************)
\* extract_images_from_pdf(pdf_path): the page images written, in page order
\* (lines 164-203); fitz is set exactly when OCR_AVAILABLE is
extract_images_from_pdf(pdf) ==
    IF ~OCR_AVAILABLE THEN <<>>
    ELSE [page_num \in 1..Len(pdf.pages) |->
             [page_num |-> page_num,
              path |-> <<"page_", ToString(page_num), ".png">>,
              engine |-> pdf.pages[page_num]]]

\* one iteration of the loop of lines 218-242 without the try/except: the
\* entry of the page, or the exception that leaves the loop
ocr_page_unguarded(img_info) ==
    LET outcome == ocr_engine(img_info.engine)
    IN  IF outcome.kind = "raise" THEN [raised |-> TRUE, text |-> <<>>]
        ELSE IF Len(outcome.lines) > 0
        THEN [raised |-> FALSE, text |-> Join(outcome.lines, <<"\n">>)]
        ELSE [raised |-> FALSE, text |-> NoTextDetected]

\* one iteration of the loop of lines 218-242: what is stored for the page
ocr_page(img_info) ==
    LET outcome == ocr_engine(img_info.engine)
    IN  IF outcome.kind = "raise" THEN [raised |-> FALSE, text |-> OcrError(outcome.error)]
        ELSE IF Len(outcome.lines) > 0
        THEN [raised |-> FALSE, text |-> Join(outcome.lines, <<"\n">>)]
        ELSE [raised |-> FALSE, text |-> NoTextDetected]

RECURSIVE ocr_loop(_, _)
\* the loop of lines 218-242 over the images not yet processed, filling the
\* dictionary (keys are the page numbers 1..n, kept as a sequence)
ocr_loop(images, ocr_text_by_page) ==
    IF Len(images) = 0 THEN [raised |-> FALSE, ocr_text_by_page |-> ocr_text_by_page]
    ELSE LET entry == ocr_page(images[1])
         IN  IF entry.raised
             THEN [raised |-> TRUE, ocr_text_by_page |-> ocr_text_by_page]
             ELSE ocr_loop(Tail(images),
                           [page_num \in 1..images[1].page_num |->
                               IF page_num = images[1].page_num THEN entry.text
                               ELSE ocr_text_by_page[page_num]])

\* apply_ocr_to_images(): self.ocr_engine is set exactly when OCR_AVAILABLE
\* is; without it the dictionary is left as it was and {} is returned
apply_ocr_to_images(extractor) ==
    IF ~OCR_AVAILABLE
    THEN [raised |-> FALSE, ocr_text_by_page |-> extractor.ocr_text_by_page]
    ELSE ocr_loop(extractor.extracted_images, <<>>)

\* get_ocr_chunks() that skips empty and no-text pages only
get_ocr_chunks_keeps_error_pages(ocr_text_by_page) ==
    LET pages == SelectSeq([page_num \in 1..Len(ocr_text_by_page) |-> page_num],
                           LAMBDA page_num :
                               LET text == ocr_text_by_page[page_num]
                               IN  /\ Len(text) > 0
                                   /\ ~StartsWith(text, NoTextDetected))
    IN  [i \in 1..Len(pages) |->
            [page |-> pages[i], text |-> ocr_text_by_page[pages[i]], source |-> "ocr"]]

\* get_ocr_chunks() (lines 276-288)
get_ocr_chunks(ocr_text_by_page) ==
    LET pages == SelectSeq([page_num \in 1..Len(ocr_text_by_page) |-> page_num],
                           LAMBDA page_num :
                               LET text == ocr_text_by_page[page_num]
                               IN  /\ Len(text) > 0
                                   /\ ~StartsWith(text, NoTextDetected)
                                   /\ ~StartsWith(text, OcrErrorPrefix))
    IN  [i \in 1..Len(pages) |->
            [page |-> pages[i], text |-> ocr_text_by_page[pages[i]], source |-> "ocr"]]

(***************************************************************************)
(* ImageAnnotator.                                                         *)
(***************************************************************************)
\* doc.iterate_items(): the items in document order, self_ref their position
iterate_items(pdf) ==
    [i \in 1..Len(pdf.items) |-> [item |-> pdf.items[i], self_ref |-> i]]

\* picture.caption_text(doc), when it returns
caption_text(picture) == <<"F", "i", "g", " ", ToString(picture.self_ref)>>

\* item.text of a text block
item_text(entry) == <<" ", "Section ", ToString(entry.self_ref), "\n">>

\* str(picture.prov[0].page_no), or "Unknown" without provenance (line 471);
\* the items of a PDF are all on page 1
page_of(picture) == IF picture.item.prov THEN <<"1">> ELSE <<"Unknown">>

\* _get_image_context(doc, picture) (lines 503-519)
get_image_context(pdf, picture) ==
    IF ~picture.item.prov THEN <<>>
    ELSE LET texts == SelectSeq(iterate_items(pdf),
                                LAMBDA e : e.item.kind = "text" /\ e.item.prov)
             context == Join([i \in 1..Len(texts) |-> Strip(item_text(texts[i]))], <<" ">>)
         IN  Take(context, context_window)

\* vision_llm.invoke(prompt, images=...), when it returns
vision_llm_invoke(caption) == <<" ", "The figure ">> \o caption \o <<" shows a pipeline.", "\n">>

\* f"[Figure: {caption}] - VLM analysis error: {str(e)[:100]}" (line 440)
vlm_fallback(caption, message) ==
    <<"[Figure: ">> \o caption \o <<"] - VLM analysis error: ">>
        \o Take(message, error_limit)

\* image_path when line 374 tests it (lines 347-372): the temporary file the
\* picture's own image (line 350) or, without one, the image get_image
\* returns (line 356) was saved to; the export of line 368 is not read and
\* line 370 sets image_path to None again
image_path(picture) ==
    IF picture.item.image \in {"pil", "accessor"} THEN "tmp.png" ELSE "None"

\* the arguments of the vision_llm.invoke call (lines 412-415, 430): the
\* prompt that is sent and the image files that go with it
vision_llm_call(picture) ==
    IF image_path(picture) # "None"
    THEN [prompt |-> "analysis", images |-> <<image_path(picture)>>]
    ELSE [prompt |-> "fallback", images |-> <<>>]

\* describe_image_with_vlm(picture_item, doc, context) (lines 342-440): the
\* string returned, or the exception that leaves the function.  An exception
\* in the try block is handled at line 435, and the handler calls
\* caption_text again (line 437).
describe_image_with_vlm(picture, context) ==
    LET item == picture.item
    IN  IF item.caption = "raises"
        THEN [raised |-> TRUE, value |-> ErrorMessage]
        ELSE IF item.image = "unwritable" \/ item.vlm = "raises"
        THEN [raised |-> FALSE,
              value |-> vlm_fallback(caption_text(picture), ErrorMessage)]
        ELSE IF image_path(picture) # "None"
        THEN [raised |-> FALSE, value |-> Strip(vision_llm_invoke(caption_text(picture)))]
        ELSE [raised |-> FALSE,
              value |-> <<"[Inferred from caption] ">>
                            \o Strip(vision_llm_invoke(caption_text(picture)))]

\* the annotation of lines 473-494
Annotation(idx, picture, context, enriched_description) ==
    [image_info |-> [index |-> idx, caption |-> caption_text(picture),
                     page |-> page_of(picture), self_ref |-> picture.self_ref],
     context |-> Take(context, 200),
     enriched_description |-> enriched_description,
     flagged |-> TRUE,
     annotation_text |-> <<"[IMAGE ", ToString(idx + 1), " - Page ">> \o page_of(picture)
                             \o <<"] ">> \o caption_text(picture)
                             \o <<"\n", "\n", "VLM Analysis: ">> \o enriched_description]

RECURSIVE annotate_loop(_, _, _)
\* the loop of lines 465-496 from index Len(annotated) on: the list when the
\* loop ends, or the list so far when caption_text (line 470) or
\* describe_image_with_vlm (line 485) raises
annotate_loop(pdf, pictures, annotated) ==
    IF Len(annotated) = Len(pictures) THEN [raised |-> FALSE, annotated_images |-> annotated]
    ELSE LET idx == Len(annotated)
             picture == pictures[idx + 1]
             context == get_image_context(pdf, picture)
             enriched_description == describe_image_with_vlm(picture, context)
         IN  IF picture.item.caption = "raises" \/ enriched_description.raised
             THEN [raised |-> TRUE, annotated_images |-> annotated]
             ELSE annotate_loop(pdf, pictures,
                                Append(annotated,
                                       Annotation(idx, picture, context,
                                                  enriched_description.value)))

\* annotate_images_in_document that appends to the list of the call before
annotate_images_in_document_keeps_list(pdf, previous) ==
    annotate_loop(pdf,
                  previous \o SelectSeq(iterate_items(pdf),
                                        LAMBDA e : e.item.kind = "picture"),
                  previous)

\* annotate_images_in_document(doc) (lines 453-501); previous is
\* self.annotated_images before the call, which line 453 replaces by []
annotate_images_in_document(pdf, previous) ==
    annotate_loop(pdf,
                  SelectSeq(iterate_items(pdf), LAMBDA e : e.item.kind = "picture"),
                  <<>>)

\* merge_annotations_into_text(text, annotations) (lines 521-532): the text
\* followed by f"\n\n{annotation['annotation_text']}\n" for each annotation.
\* process_document binds the result to enriched_text (lines 697-700) and
\* does not read it again.
merge_annotations_into_text(text, annotations) ==
    text \o Concat([n \in 1..Len(annotations) |->
                       <<"\n", "\n">> \o annotations[n].annotation_text \o <<"\n">>])

(***************************************************************************)
(* process_document: the chunk set and the summary (lines 702-843).        *)
(***************************************************************************)
\* self.chunker.contextualize(chunk) for chunk in self.chunker.chunk(doc):
\* one chunk per text block of the converted document
chunks_list(pdf) ==
    LET texts == SelectSeq(iterate_items(pdf), LAMBDA e : e.item.kind = "text")
    IN  [i \in 1..Len(texts) |-> <<pdf.name, ": ">> \o Strip(item_text(texts[i]))]

\* lines 714-729
text_documents(pdf) ==
    LET chunks == chunks_list(pdf)
    IN  [n \in 1..Len(chunks) |->
            Document(chunks[n], pdf.name, <<ToString(n - 1)>>, "text", <<>>, NoPart)]

\* lines 733-745
image_documents(pdf, annotations) ==
    [n \in 1..Len(annotations) |->
        Document(annotations[n].annotation_text, pdf.name,
                 <<"image_", ToString(annotations[n].image_info.index)>>,
                 "image_annotation", annotations[n].image_info.page, NoPart)]

\* range(0, stop, step): the values 0, step, 2 * step, .. below stop
range(stop, step) ==
    [n \in 1..((stop + step - 1) \div step) |-> (n - 1) * step]

\* ocr_text[i:i+chunk_size] cut one character short
ocr_slice_one_short(ocr_text, i) ==
    SubSeq(ocr_text, i + 1, Min(i + chunk_size - 1, Len(ocr_text)))

\* ocr_text[i:i+chunk_size] (line 763)
ocr_slice(ocr_text, i) ==
    SubSeq(ocr_text, i + 1, Min(i + chunk_size, Len(ocr_text)))

\* f"[OCR Page {page_num} - Part {i//chunk_size + 1}]\n\n"
OcrPartHeader(page_num, part) ==
    <<"[OCR Page ", ToString(page_num), " - Part ", ToString(part + 1), "]", "\n", "\n">>

\* f"[OCR Page {page_num}]\n\n"
OcrPageHeader(page_num) == <<"[OCR Page ", ToString(page_num), "]", "\n", "\n">>

\* the documents of one OCR chunk with the page's chunk_id on every part
ocr_chunk_documents_page_ids(pdf, ocr_chunk) ==
    LET ocr_text == ocr_chunk.text
        page_num == ocr_chunk.page
    IN  IF Len(ocr_text) > chunk_size
        THEN LET starts == range(Len(ocr_text), chunk_size)
             IN  [n \in 1..Len(starts) |->
                     LET i == starts[n]
                     IN  Document(OcrPartHeader(page_num, i \div chunk_size)
                                      \o ocr_slice(ocr_text, i),
                                  pdf.name,
                                  <<"ocr_page_", ToString(page_num)>>,
                                  "ocr_text", <<ToString(page_num)>>, i \div chunk_size)]
        ELSE <<Document(OcrPageHeader(page_num) \o ocr_text, pdf.name,
                        <<"ocr_page_", ToString(page_num)>>,
                        "ocr_text", <<ToString(page_num)>>, NoPart)>>

\* the documents of one OCR chunk (lines 756-787)
ocr_chunk_documents(pdf, ocr_chunk) ==
    LET ocr_text == ocr_chunk.text
        page_num == ocr_chunk.page
    IN  IF Len(ocr_text) > chunk_size
        THEN LET starts == range(Len(ocr_text), chunk_size)
             IN  [n \in 1..Len(starts) |->
                     LET i == starts[n]
                     IN  Document(OcrPartHeader(page_num, i \div chunk_size)
                                      \o ocr_slice(ocr_text, i),
                                  pdf.name,
                                  <<"ocr_page_", ToString(page_num), "_part_",
                                    ToString(i \div chunk_size)>>,
                                  "ocr_text", <<ToString(page_num)>>, i \div chunk_size)]
        ELSE <<Document(OcrPageHeader(page_num) \o ocr_text, pdf.name,
                        <<"ocr_page_", ToString(page_num)>>,
                        "ocr_text", <<ToString(page_num)>>, NoPart)>>

\* line 749 without use_ocr
adds_ocr_chunks_whenever_text(use_ocr, ocr_text_by_page) == Len(ocr_text_by_page) > 0

\* use_ocr and self.ocr_extractor.ocr_text_by_page (line 749)
adds_ocr_chunks(use_ocr, ocr_text_by_page) == use_ocr /\ Len(ocr_text_by_page) > 0

\* lines 749-787
ocr_documents(pdf, use_ocr, ocr_text_by_page) ==
    IF adds_ocr_chunks(use_ocr, ocr_text_by_page)
    THEN LET ocr_chunks == get_ocr_chunks(ocr_text_by_page)
         IN  Concat([n \in 1..Len(ocr_chunks) |-> ocr_chunk_documents(pdf, ocr_chunks[n])])
    ELSE <<>>

\* the number of documents of a type
CountType(documents, type) == Len(SelectSeq(documents, LAMBDA d : d.type = type))

(***************************************************************************)
(* process_document (lines 602-843), one action per step.                  *)
(***************************************************************************)
\* no process_document call is in flight
NoCallInFlight == run.pc \in {"idle", "returned", "raised"}

\* lines 614-655: the call, converter.convert (which returns or raises) and
\* the classification of the exported text
BeginProcessDocument(pdf, progress_callback) ==
    /\ NoCallInFlight
    /\ ingestions' = ingestions + 1
    /\ \E converts \in BOOLEAN :
          run' = IF converts
                 THEN Run("ocr", pdf, progress_callback,
                          is_image_based_pdf(export_to_markdown(pdf), threshold_default),
                          FALSE, <<>>, NoSummary, "")
                 ELSE Run("raised", pdf, progress_callback, FALSE, FALSE, <<>>,
                          NoSummary, "ConversionError")
    /\ UNCHANGED <<sessionVars, queryVars, probe, OCR_AVAILABLE, ocr_extractor,
                   image_annotator, annotated_images, chroma>>

\* process_document on a document of the library
ProcessDocumentCall ==
    /\ ingestions < MaxIngestions
    /\ \E pdf \in Library, progress_callback \in BOOLEAN :
          BeginProcessDocument(pdf, progress_callback)

\* the first process_document of a chatbot object, on any scan or native PDF
ProcessFirstDocument ==
    /\ ingestions = 0
    /\ \E pdf \in Scans \cup FigureDocs, progress_callback \in BOOLEAN :
          BeginProcessDocument(pdf, progress_callback)

\* st.session_state.chatbot = SecureChatbotRAGWithImages() (lines 990, 1104):
\* a new object over the same ./chroma_db
NewChatbot ==
    /\ NoCallInFlight
    /\ run.pc # "idle"
    /\ ocr_extractor' = [extracted_images |-> <<>>, ocr_text_by_page |-> <<>>]
    /\ image_annotator' = [annotated_images |-> <<>>]
    /\ annotated_images' = <<>>
    /\ vectorstore' = NoneStore
    /\ blocked_count' = 0
    /\ run' = NoRun
    /\ UNCHANGED <<messages, initialized, queryVars, probe, OCR_AVAILABLE, chroma,
                   ingestions>>

\* Step 2 (lines 657-680).  Line 680 belongs to the elif branch and is not
\* guarded by "if progress_callback".
OcrStep ==
    /\ run.pc = "ocr"
    /\ IF run.is_image_pdf /\ OCR_AVAILABLE
       THEN LET images == extract_images_from_pdf(run.pdf)
                ocr == apply_ocr_to_images(
                           [extracted_images |-> images,
                            ocr_text_by_page |-> ocr_extractor.ocr_text_by_page])
            IN  /\ ocr_extractor' = [extracted_images |-> images,
                                     ocr_text_by_page |-> ocr.ocr_text_by_page]
                /\ run' = IF ocr.raised
                          THEN [run EXCEPT !.pc = "raised", !.error = "OCRError"]
                          ELSE [run EXCEPT !.pc = "annotate", !.use_ocr = TRUE]
       ELSE /\ run' = IF run.is_image_pdf /\ ~run.progress_callback
                      THEN [run EXCEPT !.pc = "raised", !.error = "TypeError"]
                      ELSE [run EXCEPT !.pc = "annotate"]
            /\ UNCHANGED ocr_extractor
    /\ UNCHANGED <<sessionVars, queryVars, probe, OCR_AVAILABLE, image_annotator,
                   annotated_images, chroma, ingestions>>

\* Step 3 (lines 682-685)
AnnotateStep ==
    /\ run.pc = "annotate"
    /\ LET result == annotate_images_in_document(run.pdf, image_annotator.annotated_images)
       IN  /\ image_annotator' = [annotated_images |-> result.annotated_images]
           /\ IF result.raised
              THEN /\ run' = [run EXCEPT !.pc = "raised", !.error = "CaptionError"]
                   /\ UNCHANGED annotated_images
              ELSE /\ run' = [run EXCEPT !.pc = "chunk"]
                   /\ annotated_images' = result.annotated_images
    /\ UNCHANGED <<sessionVars, queryVars, probe, OCR_AVAILABLE, ocr_extractor, chroma,
                   ingestions>>

\* Steps 4 to 6 (lines 687-796): the chunk set.  filter_complex_metadata
\* drops metadata values that are not scalars; there are none.
ChunkStep ==
    /\ run.pc = "chunk"
    /\ run' = [run EXCEPT
                  !.pc = "delete",
                  !.documents = text_documents(run.pdf)
                                    \o image_documents(run.pdf, annotated_images)
                                    \o ocr_documents(run.pdf, run.use_ocr,
                                                     ocr_extractor.ocr_text_by_page)]
    /\ UNCHANGED <<sessionVars, queryVars, probe, OCR_AVAILABLE, ocr_extractor,
                   image_annotator, annotated_images, chroma, ingestions>>

\* Step 7, first half (lines 802-817): the collection is deleted, or opening
\* or deleting it raises and the bare except passes
DeleteCollectionStep ==
    /\ run.pc = "delete"
    /\ \E deleted \in BOOLEAN :
          chroma' = IF deleted THEN [exists |-> FALSE, docs |-> <<>>] ELSE chroma
    /\ run' = [run EXCEPT !.pc = "build"]
    /\ UNCHANGED <<sessionVars, queryVars, probe, OCR_AVAILABLE, ocr_extractor,
                   image_annotator, annotated_images, ingestions>>

\* Step 7, second half (lines 820-843): Chroma.from_documents adds the
\* documents to the collection of that name, creating it if there is none
BuildIndexStep ==
    /\ run.pc = "build"
    /\ chroma' = [exists |-> TRUE, docs |-> chroma.docs \o run.documents]
    /\ vectorstore' = [is_none |-> FALSE, docs |-> chroma'.docs]
    /\ LET ocr_chunks_count ==
               IF run.use_ocr THEN Len(get_ocr_chunks(ocr_extractor.ocr_text_by_page))
               ELSE 0
       IN  run' = [run EXCEPT
                      !.pc = "returned",
                      !.summary =
                          Summary(Len(run.documents),
                                  Len(chunks_list(run.pdf)),
                                  Len(annotated_images),
                                  ocr_chunks_count,
                                  IF run.use_ocr THEN Len(ocr_extractor.ocr_text_by_page)
                                  ELSE 0,
                                  IF run.use_ocr THEN Len(ocr_extractor.extracted_images)
                                  ELSE 0,
                                  run.use_ocr,
                                  IF run.is_image_pdf THEN "image-based"
                                  ELSE "text-based")]
    /\ UNCHANGED <<messages, initialized, blocked_count, queryVars, probe,
                   OCR_AVAILABLE, ocr_extractor, image_annotator, annotated_images,
                   ingestions>>

\* a chatbot object before its first process_document, with or without the
\* OCR libraries installed
InitIngest ==
    /\ SessionInit
    /\ OCR_AVAILABLE \in BOOLEAN
    /\ chroma = [exists |-> FALSE, docs |-> <<>>]
    /\ NewObject

\* ingestions of library documents, one after another, on one collection
NextIngest ==
    \/ ProcessDocumentCall
    \/ NewChatbot
    \/ OcrStep
    \/ AnnotateStep
    \/ ChunkStep
    \/ DeleteCollectionStep
    \/ BuildIndexStep

SpecIngest == InitIngest /\ [][NextIngest]_vars

\* one ingestion of any scan or native PDF of the bounded sets
NextDoc ==
    \/ ProcessFirstDocument
    \/ OcrStep
    \/ AnnotateStep
    \/ ChunkStep
    \/ DeleteCollectionStep
    \/ BuildIndexStep

SpecDoc == InitIngest /\ [][NextDoc]_vars

(***************************************************************************)
(* A rebuild of the index while a query retrieves from the collection.     *)
(***************************************************************************)
\* Step 7, second half, when Chroma.from_documents raises (line 821): the
\* collection is left as the delete step left it, or with the first
\* documents added; self.vectorstore is not assigned
BuildIndexFails ==
    /\ run.pc = "build"
    /\ \E added \in 0..Min(1, Len(run.documents)) :
          chroma' = IF added = 0 THEN chroma
                    ELSE [exists |-> TRUE, docs |-> chroma.docs \o Take(run.documents, added)]
    /\ run' = [run EXCEPT !.pc = "raised", !.error = "IndexError"]
    /\ UNCHANGED <<sessionVars, queryVars, probe, OCR_AVAILABLE, ocr_extractor,
                   image_annotator, annotated_images, ingestions>>

\* self.vectorstore.similarity_search(question, k=k) (line 899) of a query
\* on the chatbot, at any point of a process_document call: the handle names
\* the collection in ./chroma_db, and the search reads what is stored there
RetrieveDuringRebuild ==
    /\ probe.op = "none"
    /\ ~vectorstore.is_none
    /\ probe' = [op |-> "similarity_search",
                 rebuilding |-> ~NoCallInFlight,
                 built |-> vectorstore.docs,
                 exists |-> chroma.exists,
                 docs |-> chroma.docs]
    /\ UNCHANGED <<sessionVars, queryVars, ingestVars>>

\* process_document calls on one chatbot object, which keeps its index
\* handle from call to call, and one retrieval somewhere in between
NextRebuild ==
    \/ ProcessDocumentCall
    \/ OcrStep
    \/ AnnotateStep
    \/ ChunkStep
    \/ DeleteCollectionStep
    \/ BuildIndexStep
    \/ BuildIndexFails
    \/ RetrieveDuringRebuild

SpecRebuild == InitIngest /\ [][NextRebuild]_vars

(***************************************************************************)
(* describe_image_with_vlm on its own.                                     *)
(***************************************************************************)
\* the context argument: none, a short one, one longer than context[:500]
Contexts == {<<>>, <<"Section 1">>, Chars(context_window + 1)}

ProbeDescribeImage ==
    /\ probe.op = "none"
    /\ \E item \in AllPictures, self_ref \in 1..MaxItems, context \in Contexts :
          LET picture == [item |-> item, self_ref |-> self_ref]
          IN  probe' = [op |-> "describe_image_with_vlm",
                        picture |-> picture,
                        context |-> context,
                        call |-> vision_llm_call(picture),
                        result |-> describe_image_with_vlm(picture, context)]
    /\ UNCHANGED <<sessionVars, queryVars, ingestVars>>

NextAnnotator == ProbeDescribeImage

SpecAnnotator == Init /\ [][NextAnnotator]_vars

(***************************************************************************)
(* rerank_results on its own.                                              *)
(***************************************************************************)
\* chunks handed to rerank_results
MaxDocs == 3
\* the scores reranker.predict gives are drawn from 0..MaxScore
MaxScore == 2

\* what similarity_search returned: n chunks, told apart by their rank
Retrieved(n) ==
    [i \in 1..n |-> [page_content |-> <<"chunk">>, type |-> "text", rank |-> i]]

\* the number of self.reranker.predict calls of rerank_results (lines 847-851)
reranker_predict_calls(documents) == IF Len(documents) = 0 THEN 0 ELSE 1

ProbeRerank ==
    /\ probe.op = "none"
    /\ \E n \in 0..MaxDocs, top_k \in 0..(MaxDocs + 1) \cup {top_k_rerank_default} :
          \E scores \in [1..n -> 0..MaxScore] :
              probe' = [op |-> "rerank_results",
                        documents |-> Retrieved(n),
                        scores |-> scores,
                        top_k |-> top_k,
                        predict_calls |-> reranker_predict_calls(Retrieved(n)),
                        result |-> rerank_results(Retrieved(n), scores, top_k)]
    /\ UNCHANGED <<sessionVars, queryVars, ingestVars>>

NextRerank == ProbeRerank

SpecRerank == Init /\ [][NextRerank]_vars

(***************************************************************************)
(* is_image_based_pdf on its own.                                          *)
(***************************************************************************)
\* length of the short texts the classifier is applied to
MaxText == 3

\* markup, whitespace, a letter and a full stop
ClassifierAlphabet == {"#", "*", "-", " ", "\n", "a", "."}

\* every short text, the two exports of the document sets, and texts of
\* one character less than the default threshold and of exactly as many
ClassifierTexts ==
    UNION {[1..n -> ClassifierAlphabet] : n \in 0..MaxText}
        \cup {export_to_markdown(Pdf("scan.pdf", "scanned", <<>>, <<>>)),
              export_to_markdown(Pdf("paper.pdf", "native", <<>>, <<>>)),
              <<"#", " ">> \o Chars(threshold_default - 1),
              Chars(threshold_default) \o <<"\n">>}

\* the threshold argument: int, with the default of line 291
ClassifierThresholds == 0..(MaxText + 1) \cup {threshold_default}

\* the static method does not read the object or the module flag
ProbeIsImageBasedPdf ==
    /\ probe.op = "none"
    /\ \E doc_text \in ClassifierTexts, threshold \in ClassifierThresholds :
          probe' = [op |-> "is_image_based_pdf",
                    doc_text |-> doc_text,
                    threshold |-> threshold,
                    result |-> is_image_based_pdf(doc_text, threshold)]
    /\ UNCHANGED <<sessionVars, queryVars, ingestVars>>

NextClassifier == ProbeIsImageBasedPdf

SpecClassifier == InitIngest /\ [][NextClassifier]_vars

(***************************************************************************)
(* Properties of the guard.                                                *)
(***************************************************************************)
ProbedCheck == probe.op = "check_content"

\* C3: for every kind of failure of the content-safety service call (HTTP
\* error response, transport error, any other exception) check_content
\* returns a verdict with safe = false and blocked = true whose reason
\* carries the error message, and it never raises to its caller.
C3_EveryServiceFailureIsABlockedVerdict ==
    (ProbedCheck /\ probe.outcome.kind # "response") =>
        /\ ~probe.result.raised
        /\ ~probe.result.safe
        /\ probe.result.blocked
        /\ Contains(probe.outcome.error, probe.result.reason)

\* the threshold the claim C4 assigns to every category
C4_EffectiveThreshold(strict_mode) == IF strict_mode THEN Max(1, 2 - 1) ELSE 2

\* C4: for every set of per-category severities the service returns,
\* check_content(text, strict) is blocked iff some category's severity is at
\* or above its effective threshold (2, or max(1, 2 - 1) when strict), and
\* safe is the negation of blocked.
C4_BlockedIffSomeCategoryAtThreshold ==
    (ProbedCheck /\ probe.outcome.kind = "response") =>
        LET items == probe.outcome.categories_analysis
        IN  /\ ~probe.result.raised
            /\ probe.result.blocked <=>
                  \E i \in 1..Len(items) :
                     items[i].severity >= C4_EffectiveThreshold(probe.strict_mode)
            /\ probe.result.safe <=> ~probe.result.blocked

\* a strict check blocked by a severity the non-strict check lets through
C4_Witness ==
    /\ ProbedCheck
    /\ probe.outcome.kind = "response"
    /\ probe.strict_mode
    /\ probe.result.blocked
    /\ \A i \in 1..4 : probe.outcome.categories_analysis[i].severity <= 1

(***************************************************************************)
(* Properties of the query orchestrator and the session.                   *)
(***************************************************************************)
InFlight == pc # "idle"

LastCall == calls[Len(calls)]

LastEvent == events[Len(events)]

Terminated == Error(<<"session terminated">>)

\* the query in flight went past the input gate
PastGate ==
    \/ \E i \in 1..Len(calls) :
          calls[i].op \in {"similarity_search", "reranker.predict", "llm.stream"}
    \/ \E i \in 1..Len(events) : events[i].type \in {"chunk", "complete"}

\* C1: once the violation counter has reached the limit 3, every further
\* question submitted before a reset is refused: no retrieval, no generation,
\* no chunk or complete event for it.
C1_TerminatedSessionRefusesQuestions ==
    (InFlight /\ blocked_before >= max_blocked) => ~PastGate

\* C2: the third of three blocked inputs counted from 0, whether blocked by
\* jailbreak detection or by the input content-safety check, has the
\* session-terminated error in its event stream.
C2_ThirdBlockedInputTerminates ==
    (pc = "returned" /\ blocked_before = max_blocked - 1
        /\ blocked_count = max_blocked) => Has(events, Terminated)

\* the patterns a question contains, case-insensitively, in list order
C5_PatternsIn(text) ==
    LET folded == lower(text)
    IN  SelectSeq(jailbreak_patterns,
                  LAMBDA p : \E i \in 1..(Len(text) - Len(p) + 1) :
                                \A j \in 1..Len(p) : folded[i + j - 1] = p[j])

\* C5: a question that contains a jailbreak pattern, in any letter case, gets
\* exactly one event, an error listing the matched patterns, and the query
\* ends; detect_jailbreak is the only collaborator called and the violation
\* counter has grown by exactly 1.
C5_JailbreakEndsQueryWithOneError ==
    (InFlight /\ pc # "jailbreak_check" /\ Len(C5_PatternsIn(question)) > 0) =>
        /\ pc = "returned"
        /\ events = <<Error(<<"jailbreak: ">> \o Join(C5_PatternsIn(question), <<", ">>))>>
        /\ OpsOf(calls) = <<"detect_jailbreak">>
        /\ blocked_count = blocked_before + 1

\* a mixed-case question matching two patterns has been refused
C5_Witness ==
    /\ pc = "returned"
    /\ question = Q_two
    /\ Len(C5_PatternsIn(question)) = 2
    /\ blocked_count = 2

\* the position of a call in the order of the stages
StageRank(c) ==
    CASE c.op = "detect_jailbreak" -> 1
      [] c.op = "check_content" /\ c.mode = "input" -> 2
      [] c.op = "similarity_search" -> 3
      [] c.op = "reranker.predict" -> 4
      [] c.op = "llm.stream" -> 5
      [] c.op = "check_content" /\ c.mode = "output" -> 6

\* C6: within a query the stages run in the order JailbreakCheck,
\* InputSafetyCheck, Retrieve, Rerank, Generate, OutputSafetyCheck; the input
\* content-safety call comes after an unflagged jailbreak check, and
\* retrieval, re-ranking, generation and chunk events come only after the
\* non-strict input check returned a safe verdict.
C6_StagesRunInOrderBehindTheGate ==
    /\ \A i \in 1..(Len(calls) - 1) : StageRank(calls[i]) < StageRank(calls[i + 1])
    /\ Len(calls) >= 1 => calls[1].op = "detect_jailbreak"
    /\ Len(calls) >= 2 =>
          /\ calls[1].result = "clear"
          /\ calls[2].op = "check_content" /\ calls[2].mode = "input"
          /\ ~calls[2].strict_mode
    /\ PastGate =>
          /\ Len(calls) >= 3
          /\ calls[2].result = "safe"

\* a query that ran all six stages to a complete event
C6_Witness ==
    /\ pc = "returned"
    /\ Len(calls) = 6
    /\ LastEvent.type = "complete"
    /\ Len(ChunksOf(events)) = 2

\* C7: when the input content-safety check blocks a question, the query
\* emits an error event carrying the reason, raises the violation counter by
\* exactly 1, emits the session-terminated error as well iff the counter is
\* then >= 3, and ends with no retrieval or generation.
C7_BlockedInputCountsAndEnds ==
    (Len(calls) >= 2 /\ calls[2].op = "check_content" /\ calls[2].result = "blocked") =>
        /\ pc = "returned"
        /\ Len(calls) = 2
        /\ blocked_count = blocked_before + 1
        /\ events = <<Status("checking input"),
                      Error(<<"input blocked: ">> \o calls[2].detail)>>
                    \o (IF blocked_count >= 3 THEN <<Terminated>> ELSE <<>>)
        /\ ~PastGate

\* a policy block that is the third violation of the session
C7_Witness ==
    /\ pc = "returned"
    /\ Len(calls) = 2
    /\ calls[2].result = "blocked"
    /\ calls[2].detail = <<"VIOLENCE", " (severity: ", "2", ")">>
    /\ blocked_count = 3
    /\ Len(events) = 3

\* C8: in a query that reaches OutputSafetyCheck the strict check runs on the
\* accumulated answer; a complete event is emitted iff the check returns a
\* safe verdict, an error event with the reason otherwise, and the violation
\* counter is left unchanged.
C8_OutputCheckEndsWithCompleteOrError ==
    (Len(calls) >= 1 /\ LastCall.op = "check_content" /\ LastCall.mode = "output") =>
        /\ LastCall.strict_mode
        /\ LastEvent.type = "complete" <=> LastCall.result = "safe"
        /\ LastCall.result # "safe" =>
              LastEvent = Error(<<"output blocked: ">> \o LastCall.detail)
        /\ blocked_count = blocked_before

\* the query in flight failed in retrieval, re-ranking or generation
StageFailed ==
    /\ Len(calls) >= 1
    /\ LastCall.op \in {"similarity_search", "reranker.predict", "llm.stream"}
    /\ LastCall.result = "raised"

Returned == run.pc = "returned"

\* the call in flight, or the last one, has left the OCR step behind
PastOcrStep == run.pc \notin {"idle", "ocr"} /\ run.error # "ConversionError"

\* the chunk set of the call has been built
ChunkSetBuilt == run.pc \in {"delete", "build", "returned"}

OcrDocuments(documents) == SelectSeq(documents, LAMBDA d : d.type = "ocr_text")

\* C11: process_document (with or without a progress callback) on a document
\* classified image-based while the OCR engine is unavailable does not fail
\* in the OCR step: it skips OCR and goes on to annotation, and the summary
\* it returns has ocr_used = false and zero OCR chunks.
C11_ImageBasedWithoutOcrIngests ==
    (run.is_image_pdf /\ ~OCR_AVAILABLE /\ PastOcrStep) =>
        /\ run.error \notin {"TypeError", "OCRError"}
        /\ ~run.use_ocr
        /\ Returned =>
              /\ ~run.summary.ocr_used
              /\ run.summary.ocr_chunks = 0
              /\ Len(OcrDocuments(run.documents)) = 0

\* the OCR pipeline of the call ran
OcrRan == run.is_image_pdf /\ OCR_AVAILABLE /\ PastOcrStep

\* C12: for every list of page images and every subset of pages on which the
\* OCR engine raises or returns nothing, apply_ocr_to_images completes
\* without raising and the page-to-text mapping has exactly one entry per
\* page image: the lines joined by newlines for a page with a result, the
\* no-text sentinel for an empty result, an error sentinel carrying the first
\* 100 characters of the message for a page on which the engine raised.
C12_OneEntryPerPageImage ==
    OcrRan =>
        LET pages == run.pdf.pages
            ocr_text_by_page == ocr_extractor.ocr_text_by_page
        IN  /\ run.error # "OCRError"
            /\ Len(ocr_extractor.extracted_images) = Len(pages)
            /\ DOMAIN ocr_text_by_page = 1..Len(pages)
            /\ \A p \in 1..Len(pages) :
                  LET outcome == ocr_engine(pages[p])
                  IN  CASE outcome.kind = "raise" ->
                              /\ StartsWith(ocr_text_by_page[p], OcrErrorPrefix)
                              /\ Contains(Take(outcome.error, 100), ocr_text_by_page[p])
                              /\ ~Contains(Take(outcome.error, 101), ocr_text_by_page[p])
                        [] outcome.kind = "none" -> ocr_text_by_page[p] = NoTextDetected
                        [] outcome.kind = "lines" ->
                              ocr_text_by_page[p] = Join(outcome.lines, <<"\n">>)

\* a two-page scan whose first page failed and whose second page was read
C12_Witness ==
    /\ OcrRan
    /\ Returned
    /\ run.pdf.pages = <<"raises", "short">>
    /\ StartsWith(ocr_extractor.ocr_text_by_page[1], OcrErrorPrefix)
    /\ ocr_extractor.ocr_text_by_page[2]
          = <<"I", "n", "v", "o", "i", "c", "e", "\n", "4", "2">>

\* the pages on which the OCR engine delivered text: a result whose joined
\* lines are not empty
RealTextPages(pages) ==
    {p \in 1..Len(pages) :
        /\ ocr_engine(pages[p]).kind = "lines"
        /\ Len(Join(ocr_engine(pages[p]).lines, <<"\n">>)) > 0}

\* the page number in the metadata of an OCR document
PageNumber(document) == CHOOSE p \in 1..(MaxPages + 2) : <<ToString(p)>> = document.page

\* C13: for an image-based document processed with OCR available, the
\* OCR-type chunks placed in the index cover exactly the pages whose OCR
\* value is real text (not empty, neither the no-text sentinel nor an error
\* sentinel), in ascending page order, and the summary has ocr_used = true
\* and ocr_pages equal to the number of pages attempted.
C13_OcrChunksCoverRealTextPages ==
    (OcrRan /\ Returned) =>
        LET ocr_docs == OcrDocuments(vectorstore.docs)
        IN  /\ {PageNumber(ocr_docs[n]) : n \in 1..Len(ocr_docs)}
                  = RealTextPages(run.pdf.pages)
            /\ \A n \in 1..(Len(ocr_docs) - 1) :
                  PageNumber(ocr_docs[n]) <= PageNumber(ocr_docs[n + 1])
            /\ run.summary.ocr_used
            /\ run.summary.ocr_pages = Len(run.pdf.pages)

\* a scan of two pages of which only the second gave text
C13_Witness ==
    /\ OcrRan
    /\ Returned
    /\ run.pdf.pages = <<"none", "over">>
    /\ run.summary.ocr_pages = 2
    /\ \A n \in 1..Len(OcrDocuments(vectorstore.docs)) :
          OcrDocuments(vectorstore.docs)[n].page = <<"2">>

\* ceil(L / 1000)
C14_Ceil(L) == CHOOSE n \in 0..L : (n - 1) * 1000 < L /\ L <= n * 1000

\* the text of an OCR document behind its header, which takes header_length
\* elements
C14_PartText(document, header_length) ==
    SubSeq(document.page_content, header_length + 1, Len(document.page_content))

\* C14: for every OCR page text of length L > 1000, process_document
\* produces exactly ceil(L/1000) OCR chunks for that page, with part indices
\* 0..ceil(L/1000)-1 in order, each part's text at most 1000 characters, and
\* the concatenation of the parts' texts in part order equal to the page
\* text; a page text of length <= 1000 produces exactly one unsplit chunk.
C14_OcrPageSplitsIntoOrderedParts ==
    (OcrRan /\ ChunkSetBuilt) =>
        \A p \in RealTextPages(run.pdf.pages) :
            LET text == Join(ocr_engine(run.pdf.pages[p]).lines, <<"\n">>)
                L == Len(text)
                parts == SelectSeq(OcrDocuments(run.documents),
                                   LAMBDA d : d.page = <<ToString(p)>>)
            IN  IF L > 1000
                THEN /\ Len(parts) = C14_Ceil(L)
                     /\ \A n \in 1..Len(parts) :
                           /\ parts[n].ocr_part = n - 1
                           /\ Len(C14_PartText(parts[n], 7)) <= 1000
                     /\ Concat([n \in 1..Len(parts) |-> C14_PartText(parts[n], 7)]) = text
                ELSE /\ Len(parts) = 1
                     /\ parts[1].ocr_part = NoPart
                     /\ C14_PartText(parts[1], 5) = text

\* a scan with a page of 1000 characters and a page of 2000
C14_Witness ==
    /\ OcrRan
    /\ Returned
    /\ run.pdf.pages = <<"full", "double">>
    /\ Len(OcrDocuments(run.documents)) = 3

\* C15: the OCR pipeline runs, and the chunk set contains OCR-type chunks,
\* only when the classifier returned image-based and the OCR engine is
\* available; ocr_used in the summary is true iff both hold; for a
\* text-based document the chunk set has no OCR-type chunk and ocr_used is
\* false, also when an earlier ingestion on the same object used OCR.
C15_OcrOnlyForImageBasedWithEngine ==
    /\ run.use_ocr => (run.is_image_pdf /\ OCR_AVAILABLE)
    /\ ChunkSetBuilt =>
          (Len(OcrDocuments(run.documents)) > 0 => (run.is_image_pdf /\ OCR_AVAILABLE))
    /\ Returned =>
          /\ run.summary.ocr_used <=> (run.is_image_pdf /\ OCR_AVAILABLE)
          /\ ~run.is_image_pdf =>
                /\ Len(OcrDocuments(run.documents)) = 0
                /\ ~run.summary.ocr_used

\* a text-based document ingested by an object that still holds the OCR text
\* of a scan
C15_Witness ==
    /\ Returned
    /\ run.pdf.name = "report.pdf"
    /\ ~run.is_image_pdf
    /\ OCR_AVAILABLE
    /\ Len(ocr_extractor.ocr_text_by_page) = 3
    /\ CountType(run.documents, "text") = 2

\* the positions of the figures among the items of a document, ascending
FigurePositions(pdf) ==
    SelectSeq([i \in 1..Len(pdf.items) |-> i], LAMBDA i : pdf.items[i].kind = "picture")

\* annotate_images_in_document has returned to the call
AnnotateReturned == run.pc \in {"chunk", "delete", "build", "returned"}

\* C16: for a document with N figure elements, annotate_images_in_document
\* returns exactly N annotation records whose index fields are 0..N-1, in
\* the order in which the figures occur in the document's item iteration;
\* a second call on another document starts again from an empty list.
C16_AnnotationIndicesDenseInDocumentOrder ==
    AnnotateReturned =>
        LET figures == FigurePositions(run.pdf)
        IN  /\ Len(annotated_images) = Len(figures)
            /\ image_annotator.annotated_images = annotated_images
            /\ \A n \in 1..Len(figures) :
                  /\ annotated_images[n].image_info.index = n - 1
                  /\ annotated_images[n].image_info.self_ref = figures[n]

\* the two figures of paper.pdf annotated by an object that ingested the
\* scan, with its one figure, before
C16_Witness ==
    /\ Returned
    /\ run.pdf.name = "paper.pdf"
    /\ Len(ocr_extractor.ocr_text_by_page) = 3
    /\ Len(annotated_images) = 2
    /\ annotated_images[2].image_info.self_ref = 3

\* a step of describe_image_with_vlm raises on the picture
C17_SomeStepRaises(item) ==
    item.caption = "raises" \/ item.image = "unwritable" \/ item.vlm = "raises"

\* C17: describe_image_with_vlm never raises: for every exception raised in
\* the procedure (caption lookup, temp-file write, vision-model call) it
\* returns a fallback string that embeds the error message truncated to 100
\* characters.
C17_DescribeImageNeverRaises ==
    probe.op = "describe_image_with_vlm" =>
        /\ ~probe.result.raised
        /\ C17_SomeStepRaises(probe.picture.item) =>
              /\ Contains(Take(ErrorMessage, 100), probe.result.value)
              /\ ~Contains(Take(ErrorMessage, 101), probe.result.value)

\* a step of the annotation of some figure of the document raises
C18_SomeFigureFails(pdf) ==
    \E i \in 1..Len(pdf.items) :
        pdf.items[i].kind = "picture" /\ C17_SomeStepRaises(pdf.items[i])

\* C18: a failure while annotating one figure never aborts ingestion:
\* annotate_images_in_document still returns a record for every figure and
\* process_document goes on to build the index.
C18_FigureFailureDoesNotAbortIngestion ==
    (C18_SomeFigureFails(run.pdf) /\ run.pc \notin {"idle", "ocr", "annotate"}
        /\ run.error \notin {"ConversionError", "TypeError"}) =>
        /\ run.pc # "raised"
        /\ Len(annotated_images) = Len(FigurePositions(run.pdf))

\* C19: after every successful process_document the index stored under the
\* collection name contains exactly the chunks of the document just
\* ingested, for every sequence of ingestions and every outcome of the
\* delete step.
C19_IndexHoldsOnlyTheDocumentJustIngested ==
    Returned =>
        /\ chroma.exists
        /\ chroma.docs = run.documents

\* C20: the summary returned by process_document is consistent with the
\* chunk set indexed: text_chunks, image_chunks and ocr_chunks are the
\* numbers of indexed chunks of type text, image_annotation and ocr_text,
\* and total_chunks is their sum.
C20_SummaryCountsTheIndexedChunks ==
    Returned =>
        /\ run.summary.text_chunks = CountType(run.documents, "text")
        /\ run.summary.image_chunks = CountType(run.documents, "image_annotation")
        /\ run.summary.ocr_chunks = CountType(run.documents, "ocr_text")
        /\ run.summary.total_chunks
              = run.summary.text_chunks + run.summary.image_chunks
                    + run.summary.ocr_chunks

TextDocuments(documents) == SelectSeq(documents, LAMBDA d : d.type = "text")

ImageDocuments(documents) == SelectSeq(documents, LAMBDA d : d.type = "image_annotation")

\* C21: in the chunk set built by one process_document run, chunk
\* identifiers are pairwise distinct across all three chunk types (text ids
\* 0..n-1, image ids image_<index>, OCR ids ocr_page_<p> or
\* ocr_page_<p>_part_<j>), and the sub-chunks of one split OCR page share
\* the page number and differ by part index.
C21_ChunkIdsPairwiseDistinct ==
    ChunkSetBuilt =>
        LET documents == run.documents
            texts == TextDocuments(documents)
            images == ImageDocuments(documents)
            ocrs == OcrDocuments(documents)
        IN  /\ \A i, j \in 1..Len(documents) :
                  i # j => documents[i].chunk_id # documents[j].chunk_id
            /\ \A n \in 1..Len(texts) : texts[n].chunk_id = <<ToString(n - 1)>>
            /\ \A n \in 1..Len(images) :
                  images[n].chunk_id = <<"image_", ToString(annotated_images[n].image_info.index)>>
            /\ \A n \in 1..Len(ocrs) :
                  ocrs[n].chunk_id =
                      IF ocrs[n].ocr_part = NoPart
                      THEN <<"ocr_page_">> \o ocrs[n].page
                      ELSE <<"ocr_page_">> \o ocrs[n].page
                               \o <<"_part_", ToString(ocrs[n].ocr_part)>>
            /\ \A i, j \in 1..Len(ocrs) :
                  (i # j /\ ocrs[i].page = ocrs[j].page) =>
                      /\ ocrs[i].ocr_part # NoPart
                      /\ ocrs[j].ocr_part # NoPart
                      /\ ocrs[i].ocr_part # ocrs[j].ocr_part

\* the scan of the library: a text chunk, a figure, an unsplit OCR page and
\* an OCR page in two parts
C21_Witness ==
    /\ ChunkSetBuilt
    /\ Len(TextDocuments(run.documents)) = 1
    /\ Len(ImageDocuments(run.documents)) = 1
    /\ Len(OcrDocuments(run.documents)) = 3
    /\ \E d \in {run.documents[n] : n \in 1..Len(run.documents)} : d.ocr_part = 1

(***************************************************************************)
(* Properties of rerank_results.                                           *)
(***************************************************************************)
\* C22: for every list of n retrieved chunks and every score assignment,
\* rerank_results returns exactly the first min(top_k, n) elements of the
\* stable descending sort by score: scores are non-increasing along the
\* result, no dropped chunk scores higher than a kept one, and two chunks
\* with equal scores keep their relative retrieval order; an empty input
\* returns an empty list without calling the re-ranker.
C22_RerankIsTopOfStableDescendingSort ==
    probe.op = "rerank_results" =>
        LET n == Len(probe.documents)
            result == probe.result
            kept == {result[i].doc.rank : i \in 1..Len(result)}
        IN  /\ Len(result) = Min(probe.top_k, n)
            /\ \A i \in 1..Len(result) :
                  /\ result[i].doc.rank \in 1..n
                  /\ result[i].doc = probe.documents[result[i].doc.rank]
                  /\ result[i].score = probe.scores[result[i].doc.rank]
            /\ \A i, j \in 1..Len(result) :
                  i < j =>
                      /\ result[i].doc.rank # result[j].doc.rank
                      /\ result[i].score >= result[j].score
                      /\ result[i].score = result[j].score =>
                             result[i].doc.rank < result[j].doc.rank
            /\ \A dropped \in (1..n) \ kept :
                  \A i \in 1..Len(result) :
                      /\ probe.scores[dropped] <= result[i].score
                      /\ probe.scores[dropped] = result[i].score =>
                             result[i].doc.rank < dropped
            /\ n = 0 => (result = <<>> /\ probe.predict_calls = 0)

\* three chunks, the first and the last with the same score and the second
\* below them, cut to two
C22_Witness ==
    /\ probe.op = "rerank_results"
    /\ probe.scores = <<1, 0, 1>>
    /\ probe.top_k = 2
    /\ probe.result[1].doc.rank = 1
    /\ probe.result[2].doc.rank = 3

(***************************************************************************)
(* Properties of is_image_based_pdf.                                       *)
(***************************************************************************)
\* the characters of a text that are neither '#', '*', '-' nor whitespace
C23_NormalizedCount(text) ==
    Cardinality({i \in 1..Len(text) : text[i] \notin {"#", "*", "-", " ", "\n", "\t", "\r"}})

\* a text of nothing but '#', '*', '-' and whitespace (the empty one too)
C23_MarkupOnly(text) == C23_NormalizedCount(text) = 0

\* C23 as stated: for every text and threshold, is_image_based_pdf returns
\* image-based iff the number of characters left after removing every '#',
\* '*', '-' and all whitespace is < threshold (default 500); in particular
\* the empty string and any whitespace-only or punctuation-only text
\* classify image-based, and the result depends on nothing but the two
\* arguments.
C23_EmptyAndMarkupOnlyAlwaysImageBased ==
    probe.op = "is_image_based_pdf" =>
        /\ probe.result = (C23_NormalizedCount(probe.doc_text) < probe.threshold)
        /\ C23_MarkupOnly(probe.doc_text) => probe.result

\* C23 as amended: for every text and threshold, is_image_based_pdf returns
\* image-based iff the number of characters left after removing every '#',
\* '*', '-' and all whitespace is < threshold; for every threshold >= 1 the
\* empty string and any text of whitespace, '#', '*' and '-' only classify
\* image-based, while for a threshold <= 0 every text, the empty one
\* included, classifies text-based; the result depends on nothing but the
\* two arguments.
C23_ImageBasedIffCountBelowThreshold ==
    probe.op = "is_image_based_pdf" =>
        /\ probe.result = (C23_NormalizedCount(probe.doc_text) < probe.threshold)
        /\ (probe.threshold >= 1 /\ C23_MarkupOnly(probe.doc_text)) => probe.result
        /\ probe.threshold <= 0 => ~probe.result

\* a text of markup and whitespace under the smallest positive threshold
C23_Witness ==
    /\ probe.op = "is_image_based_pdf"
    /\ probe.doc_text = <<"#", " ", "*">>
    /\ probe.threshold = 1
    /\ probe.result

(***************************************************************************)
(* Properties of the query: history, chunk events, end of the stream.      *)
(***************************************************************************)
\* the prompts handed to llm.stream in the query in flight
Prompts == SelectSeq(calls, LAMBDA c : c.op = "llm.stream")

\* the turns of the session before the question of the query in flight,
\* which is the last message while the query runs
PriorTurns == SubSeq(messages, 1, Len(messages) - 1)

\* C24: the conversation history embedded in the generation prompt of a
\* query consists only of turns that precede the current question, and of
\* at most the last 3 exchanges (6 messages) of them, in chronological
\* order; the current question itself is not part of the history window.
C24_HistoryWindowPrecedesCurrentQuestion ==
    \A i \in 1..Len(Prompts) :
        \E m \in 0..6 :
            Prompts[i].detail = prompt_format(question, BuildChatHistory(LastN(PriorTurns, m)))

\* the output check of the query in flight returned a blocked verdict
OutputBlocked ==
    /\ Len(calls) >= 1
    /\ LastCall.op = "check_content"
    /\ LastCall.mode = "output"
    /\ LastCall.result = "blocked"

\* the positions of the events of a type
EventsAt(type) == {i \in 1..Len(events) : events[i].type = type}

\* the for loop of main has ended and the messages are about to be stored
QueryEnds == pc \in {"returned", "raised"} /\ pc' = "idle"

\* C25: in a query whose output is blocked, every answer increment was
\* delivered to the caller as a chunk event before the error event, and
\* after the query the session's persistent message history contains the
\* block message but not the blocked answer text; a later query's history
\* window therefore never contains an answer that failed the output check.
C25_BlockedAnswerStaysOutOfHistory ==
    /\ [](OutputBlocked =>
            /\ EventsAt("error") = {Len(events)}
            /\ \A i \in EventsAt("chunk") : i < Len(events)
            /\ MainFullResponse(events) = full_response)
    /\ [][(OutputBlocked /\ QueryEnds) =>
            /\ messages' = Append(messages, [role |-> "assistant",
                                             content |-> LastEvent.content])
            /\ LastEvent.content = <<"output blocked: ">> \o LastCall.detail
            /\ Len(full_response) > 0 => ~Contains(full_response, LastEvent.content)]_vars
    /\ [][(QueryEnds /\ messages' # messages /\ EventsAt("chunk") # {}
              /\ Contains(full_response, messages'[Len(messages')].content)) =>
            (LastCall.op = "check_content" /\ LastCall.mode = "output"
                /\ LastCall.result = "safe")]_vars
    /\ [](InFlight => chat_history = BuildChatHistory(LastN(messages, 6)))

\* a second query whose answer of two increments was blocked, about to be
\* stored
C25_Witness ==
    /\ pc = "returned"
    /\ OutputBlocked
    /\ Cardinality(EventsAt("chunk")) = 2
    /\ Len(messages) = 3

\* C26: assuming every external call returns and the generation stream is
\* finite, every query eventually ends, and its event stream ends with a
\* terminal event that is either error or complete; a stream never contains
\* both an error event and a complete event, contains at most one complete
\* event, and no event follows a complete event.
C26_QueryEndsWithOneTerminalEvent ==
    /\ InFlight ~> ~InFlight
    /\ [](pc = "returned" =>
            /\ Len(events) >= 1
            /\ LastEvent.type \in {"error", "complete"})
    /\ [](/\ EventsAt("error") = {} \/ EventsAt("complete") = {}
          /\ Cardinality(EventsAt("complete")) <= 1
          /\ EventsAt("complete") \subseteq {Len(events)})

\* a query of two increments that has ended with complete
C26_Witness ==
    /\ pc = "returned"
    /\ Cardinality(EventsAt("chunk")) = 2
    /\ LastEvent.type = "complete"

(***************************************************************************)
(* Properties of ingestion: the body that is chunked.                      *)
(***************************************************************************)
\* C27: the text-type chunks that process_document indexes are produced by
\* chunking the enriched body, i.e. the output of
\* merge_annotations_into_text (native text export followed by every
\* annotation's rendered string in annotation order), so the merged text is
\* what the chunker consumes: every annotation string of the enriched body
\* is found in the text-type chunks.
C27_TextChunksAreChunksOfEnrichedBody ==
    ChunkSetBuilt =>
        LET enriched_text ==
                merge_annotations_into_text(export_to_markdown(run.pdf), annotated_images)
            texts == TextDocuments(run.documents)
            chunked == Concat([n \in 1..Len(texts) |-> texts[n].page_content])
        IN  \A n \in 1..Len(annotated_images) :
                /\ Contains(annotated_images[n].annotation_text, enriched_text)
                /\ Contains(annotated_images[n].annotation_text, chunked)

(***************************************************************************)
(* Properties of the query: the chunk events.                              *)
(***************************************************************************)
\* the output check of the query in flight has been invoked
OutputCheckInvoked ==
    \E i \in 1..Len(calls) : calls[i].op = "check_content" /\ calls[i].mode = "output"

\* C28: in every query that reaches generation, one chunk event is emitted
\* per increment of the language-model stream, in stream order and before
\* the output safety check is invoked, and the text passed to the strict
\* output check equals the concatenation of the contents of all chunk
\* events emitted in that query.
C28_OneChunkEventPerIncrement ==
    /\ [](\A n \in 1..Len(ChunksOf(events)) : ChunksOf(events)[n].content = Increment(n))
    /\ [](pc \in {"streaming", "output_safety_check"} =>
            /\ MainFullResponse(events) = full_response
            /\ ~OutputCheckInvoked)
    /\ [](OutputCheckInvoked =>
            /\ LastCall.op = "check_content"
            /\ LastCall.strict_mode
            /\ MainFullResponse(events) = full_response
            /\ \A i \in EventsAt("chunk") :
                  \E j \in (i + 1)..Len(events) : events[j] = Status("validating"))
    /\ [][(OutputCheckInvoked /\ pc' # "idle") => ChunksOf(events') = ChunksOf(events)]_vars

\* the strict check has run on an answer of two increments
C28_Witness ==
    /\ OutputCheckInvoked
    /\ Len(ChunksOf(events)) = 2
    /\ full_response = Increment(1) \o Increment(2)

(***************************************************************************)
(* Properties of the guard: the recorded thresholds.                       *)
(***************************************************************************)
\* C29: in every verdict returned by check_content, the threshold recorded
\* for a category is the threshold that was actually used to decide that
\* category: in strict mode the recorded value is the lowered threshold
\* max(1, threshold - 1), so for every category the verdict is
\* blocked-by-that-category iff its recorded severity >= its recorded
\* threshold.
C29_RecordedThresholdIsTheOneUsed ==
    (ProbedCheck /\ probe.outcome.kind = "response") =>
        LET items == probe.outcome.categories_analysis
        IN  \A i \in 1..Len(items) :
                LET recorded == probe.result.categories[CategoryLower[items[i].category]]
                IN  /\ recorded.severity = items[i].severity
                    /\ recorded.threshold = C4_EffectiveThreshold(probe.strict_mode)
                    /\ Contains(item_reason(items[i]), probe.result.reason)
                           <=> recorded.severity >= recorded.threshold

(***************************************************************************)
(* Properties of the index handle during a rebuild.                        *)
(***************************************************************************)
\* C30: when an index rebuild on a chatbot that already has an active index
\* interleaves with a query on the same collection, the query's retrieval
\* observes either the complete old index or the complete new index: the
\* active handle is swapped atomically and never refers to a deleted, empty
\* or partially built collection, also when the build step fails after the
\* delete step.
C30_RetrievalSeesCompleteOldOrNewIndex ==
    /\ ~vectorstore.is_none =>
          /\ chroma.exists
          /\ chroma.docs = vectorstore.docs
    /\ probe.op = "similarity_search" =>
          /\ probe.exists
          /\ probe.docs = probe.built

(***************************************************************************)
(* Properties of the pixel data of a figure.                               *)
(***************************************************************************)
\* one of the three strategies can supply the pixel data of the picture: its
\* own image object, the document-level accessor, the embedded export
SomeStrategySupplies(item) == item.image \in {"pil", "accessor", "embedded", "unwritable"}

\* C31: describe_image_with_vlm resolves pixel data by trying the three
\* strategies in priority order (direct image object, document-level
\* accessor, full-document embedded export), moving to the next when one
\* yields nothing, and the first that yields data wins: the vision model is
\* called with the image whenever at least one strategy can supply it, and
\* the caption-and-context-only prompt, whose result is prefixed as
\* inferred, is used iff none can.
C31_ImageSentWheneverSomeStrategySupplies ==
    (probe.op = "describe_image_with_vlm" /\ ~C17_SomeStepRaises(probe.picture.item)) =>
        /\ SomeStrategySupplies(probe.picture.item) =>
              /\ probe.call.prompt = "analysis"
              /\ Len(probe.call.images) = 1
        /\ (/\ probe.call.prompt = "fallback"
            /\ Take(probe.result.value, 1) = <<"[Inferred from caption] ">>)
              <=> ~SomeStrategySupplies(probe.picture.item)

(***************************************************************************)
(* Properties of the session: blocked questions, history, counter, flag.   *)
(***************************************************************************)
\* the assistant message main stores for a query the input gate blocked
\* (lines 872-875, 885-894, 1240-1244)
InputBlockReply(content) ==
    Take(content, 1) \in {<<"jailbreak: ">>, <<"input blocked: ">>, <<"session terminated">>}

\* the questions of the session that the input gate blocked
BlockedQuestions ==
    {messages[i].content : i \in {j \in 1..(Len(messages) - 1) :
        /\ messages[j].role = "user"
        /\ messages[j + 1].role = "assistant"
        /\ InputBlockReply(messages[j + 1].content)}}

\* C32: text of a question that the input gate blocked (jailbreak or
\* content-safety) never reaches the generative language model: over any
\* sequence of queries in a session, no generation prompt, including its
\* conversation-history section, contains a previously blocked question.
C32_BlockedQuestionNeverInPrompt ==
    \A i \in 1..Len(Prompts) :
        \A blocked \in BlockedQuestions : ~Contains(blocked, Prompts[i].detail)

\* C33: after every handled question, whatever its outcome (answer, empty
\* answer from the model, policy block, or an exception during the query),
\* the session message history strictly alternates user and assistant
\* messages: each user message is followed by exactly one assistant message
\* before the next user message.
C33_HistoryAlternates ==
    pc = "idle" =>
        /\ Len(messages) % 2 = 0
        /\ \A i \in 1..Len(messages) :
              messages[i].role = IF i % 2 = 1 THEN "user" ELSE "assistant"

\* the query in flight passed both input checks
PassedInputChecks ==
    \E i \in 1..Len(calls) :
        /\ calls[i].op = "check_content"
        /\ calls[i].mode = "input"
        /\ calls[i].result = "safe"

\* C34: over any sequence of queries and UI actions, the violation counter
\* is always >= 0, each query changes it by 0 or by exactly +1 (never by 2,
\* since a jailbreak flag short-circuits the content check), a query that
\* passes both input checks leaves it unchanged, and it decreases only by
\* being set to 0 through Reset Chat or by replacement of the chatbot object
\* (Clear All, Process Document).
C34_CounterStepsByOneAndResetsToZero ==
    /\ [](blocked_count >= 0)
    /\ [](InFlight => blocked_count - blocked_before \in {0, 1})
    /\ [](InFlight /\ PassedInputChecks => blocked_count = blocked_before)
    /\ [][blocked_count' < blocked_count =>
             /\ blocked_count' = 0
             /\ ~InFlight
             /\ messages' = <<>>
             /\ \/ initialized /\ UNCHANGED <<initialized, vectorstore>>
                \/ initialized /\ ~initialized' /\ vectorstore' = NoneStore
                \/ initialized' = ~vectorstore'.is_none]_vars

\* a query that took the counter from 2 to 3 at the input gate
C34_Witness ==
    /\ pc = "returned"
    /\ blocked_before = 2
    /\ blocked_count = 3
    /\ ~PassedInputChecks

\* the input check of the query in flight blocked the question because the
\* service call failed (lines 109-115)
InputFailedClosed ==
    /\ pc = "returned"
    /\ LastCall.op = "check_content"
    /\ LastCall.mode = "input"
    /\ LastCall.result = "blocked"
    /\ Take(LastCall.detail, 1) = <<"Error: ">>

\* the reply main stored for a question blocked by a failed service call
FailedClosedReply(m) ==
    m.role = "assistant" /\ Take(m.content, 2) = <<"input blocked: ", "Error: ">>

\* the two questions before the one in flight were blocked by a failed
\* service call
TwoFailuresBefore ==
    /\ Len(messages) >= 5
    /\ FailedClosedReply(messages[Len(messages) - 1])
    /\ FailedClosedReply(messages[Len(messages) - 3])

\* C35: an input that is blocked only because the content-safety service
\* call failed (fail-closed verdict) is counted against the violation budget
\* exactly like a policy block: it increments the counter by 1, and three
\* such service failures in a row produce the session-terminated error for a
\* user who sent only harmless questions.
C35_ServiceFailureCountsAsViolation ==
    InputFailedClosed =>
        /\ blocked_count = blocked_before + 1
        /\ LastEvent = Error(<<"session terminated">>) <=> blocked_count >= max_blocked
        /\ TwoFailuresBefore => LastEvent = Error(<<"session terminated">>)

\* the third failed service call in a row in a session of three harmless
\* questions
C35_Witness ==
    /\ InputFailedClosed
    /\ TwoFailuresBefore
    /\ Len(messages) = 5
    /\ \A i \in {1, 3, 5} : messages[i] = [role |-> "user", content |-> Q_benign]
    /\ blocked_count = max_blocked
    /\ LastEvent = Error(<<"session terminated">>)

\* C36: over every sequence of UI actions (Process Document succeeding or
\* failing, Load Default, Reset Chat, Clear All, question submission), the
\* session flag initialized is true only if the session's current chatbot
\* object holds an index handle built by a successful process_document;
\* hence a question is passed to stream_response only when an active index
\* exists.
C36_InitializedOnlyWithIndexHandle ==
    /\ initialized =>
          /\ ~vectorstore.is_none
          /\ vectorstore.docs = IndexedDocs
    /\ InFlight =>
          /\ initialized
          /\ ~vectorstore.is_none

\* the second question of a session on its way to similarity_search
C36_Witness ==
    /\ pc = "retrieve"
    /\ initialized
    /\ ~vectorstore.is_none
    /\ Asked(messages) = 2

====
